---------------------------- MODULE Spec2Model ----------------------------
(***************************************************************************)
(* Model of the CloudCart feed translator: the request handler POST        *)
(* (src/src/app/api/translate/route.ts), the parser library                *)
(* (src/src/lib/cloudcart-parser.ts: containsSourceLanguage,               *)
(* extractTranslatables, deduplicateItems, applyTranslations, industries)  *)
(* and the batch translation orchestrator (src/unnamed/part_000:           *)
(* translateTexts, translateBatch).                                        *)
(*                                                                         *)
(* A text is a sequence of Unicode code points (naturals).  A feed         *)
(* document is kept in parsed form, a sequence of product records; the     *)
(* string the handler reads from the upload is Render of it, in which      *)
(* every markup delimiter is one code point of the private use area.       *)
(***************************************************************************)
EXTENDS Integers, Sequences, FiniteSets, TLC

(***************************************************************************)
(* Bounds of the model.                                                    *)
(***************************************************************************)
\* documents carry up to MaxFullBatches full batches of provider texts, plus one text
MaxFullBatches == 2

\* the provider answers with JSON that is no array of strings only to calls
\* that carry at most MaxOddBatch texts
MaxOddBatch == 1

(***************************************************************************)
(* Texts.                                                                  *)
(***************************************************************************)
\* the value of a tag or attribute a document does not have
Absent == << -1 >>

\* String.prototype.trim strips these code points (WhiteSpace and LineTerminator)
IsWhitespace(c) ==
    \/ c \in {9, 10, 11, 12, 13, 32, 160, 5760, 8232, 8233, 8239, 8287, 12288, 65279}
    \/ c \in 8192..8202

\* a trim that strips the space only
TrimIsEmpty_SpacesOnly(text) == \A i \in 1..Len(text) : text[i] = 32

\* text.trim().length === 0
TrimIsEmpty(text) == \A i \in 1..Len(text) : IsWhitespace(text[i])

\* a character class without its two end points
HasCodePointIn_Exclusive(text, lo, hi) == \E i \in 1..Len(text) : text[i] > lo /\ text[i] < hi

\* /[\uLO-\uHI]/.test(text)
HasCodePointIn(text, lo, hi) == \E i \in 1..Len(text) : text[i] >= lo /\ text[i] <= hi

\* a detector without the guard for blank texts
containsSourceLanguage_NoBlankGuard(text, sourceLang) ==
    CASE sourceLang \in {"bg", "ru", "sr", "mk", "uk"} -> HasCodePointIn(text, 1024, 1279)
      [] sourceLang = "el" -> HasCodePointIn(text, 880, 1023)
      [] sourceLang = "zh" -> HasCodePointIn(text, 19968, 40959)
      [] sourceLang = "ja" -> \/ HasCodePointIn(text, 12352, 12447)
                              \/ HasCodePointIn(text, 12448, 12543)
                              \/ HasCodePointIn(text, 19968, 40959)
      [] sourceLang = "ko" -> HasCodePointIn(text, 44032, 55215)
      [] sourceLang = "ar" -> HasCodePointIn(text, 1536, 1791)
      [] sourceLang = "he" -> HasCodePointIn(text, 1424, 1535)
      [] OTHER -> TRUE

containsSourceLanguage(text, sourceLang) ==
    IF Len(text) = 0 \/ TrimIsEmpty(text) THEN FALSE
    ELSE CASE sourceLang \in {"bg", "ru", "sr", "mk", "uk"} -> HasCodePointIn(text, 1024, 1279)
           [] sourceLang = "el" -> HasCodePointIn(text, 880, 1023)
           [] sourceLang = "zh" -> HasCodePointIn(text, 19968, 40959)
           [] sourceLang = "ja" -> \/ HasCodePointIn(text, 12352, 12447)
                                   \/ HasCodePointIn(text, 12448, 12543)
                                   \/ HasCodePointIn(text, 19968, 40959)
           [] sourceLang = "ko" -> HasCodePointIn(text, 44032, 55215)
           [] sourceLang = "ar" -> HasCodePointIn(text, 1536, 1791)
           [] sourceLang = "he" -> HasCodePointIn(text, 1424, 1535)
           [] OTHER -> TRUE

(***************************************************************************)
(* Field kinds.                                                            *)
(***************************************************************************)
TRANSLATABLE_FIELDS ==
    << [id |-> "title", defaultOn |-> FALSE],
       [id |-> "short_description", defaultOn |-> TRUE],
       [id |-> "description", defaultOn |-> TRUE],
       [id |-> "meta_title", defaultOn |-> FALSE],
       [id |-> "meta_description", defaultOn |-> TRUE],
       [id |-> "category", defaultOn |-> TRUE],
       [id |-> "category_property_name", defaultOn |-> TRUE],
       [id |-> "category_property_value", defaultOn |-> TRUE],
       [id |-> "tab_name", defaultOn |-> TRUE],
       [id |-> "tab_description", defaultOn |-> TRUE],
       [id |-> "option_name", defaultOn |-> TRUE],
       [id |-> "option_value", defaultOn |-> TRUE] >>

AllFields == {TRANSLATABLE_FIELDS[i].id : i \in 1..Len(TRANSLATABLE_FIELDS)}

\* new Set(TRANSLATABLE_FIELDS.filter((f) => f.defaultOn).map((f) => f.id))
DefaultFields ==
    {TRANSLATABLE_FIELDS[i].id : i \in {j \in 1..Len(TRANSLATABLE_FIELDS) : TRANSLATABLE_FIELDS[j].defaultOn}}


(***************************************************************************)
(* Feed documents, in parsed form.  A product record holds the content of  *)
(* each simple tag (Absent when the tag is missing) and the occurrences of *)
(* the repeated keyed substructures, in document order.                    *)
(***************************************************************************)
EmptyProduct ==
    [id |-> Absent, title |-> Absent, short_description |-> Absent,
     description |-> Absent, meta_title |-> Absent, meta_description |-> Absent,
     category |-> Absent,
     category_properties |-> << >>, tabs |-> << >>, options |-> << >>]

\* the two halves of a sequence of two or more elements.  A loop over a sequence
\* runs over the first half, then over the second; it tests the length of the
\* intermediate result so that TLC evaluates it before going on.
FirstHalf(seq) == SubSeq(seq, 1, Len(seq) \div 2)
SecondHalf(seq) == SubSeq(seq, Len(seq) \div 2 + 1, Len(seq))

\* concatenation of a sequence of sequences
RECURSIVE Flatten(_)
Flatten(ss) ==
    IF Len(ss) = 0 THEN << >>
    ELSE IF Len(ss) = 1 THEN ss[1]
    ELSE Flatten(FirstHalf(ss)) \o Flatten(SecondHalf(ss))

\* String(n) for a natural n, as code points
RECURSIVE DecimalString(_)
DecimalString(n) == IF n < 10 THEN << 48 + n >> ELSE Append(DecimalString(n \div 10), 48 + (n % 10))

\* "unknown-" and "Untitled"
UnknownPrefix == << 117, 110, 107, 110, 111, 119, 110, 45 >>
Untitled == << 85, 110, 116, 105, 116, 108, 101, 100 >>

\* the capture group ([^<]*) matches a content only when it holds no "<" (code point 60)
PlainCapture(content) == content # Absent /\ \A i \in 1..Len(content) : content[i] # 60

\* the capture group ([\s\S]*?) matches any content
RichCapture(content) == content # Absent

\* extractTag: zero or one item for a simple tag of a product
extractTag(content, field, allowHtml, productId, productTitle, sourceLang, fields) ==
    IF field \notin fields THEN << >>
    ELSE IF /\ (IF allowHtml THEN RichCapture(content) ELSE PlainCapture(content))
            /\ ~TrimIsEmpty(content)
            /\ containsSourceLanguage(content, sourceLang)
         THEN << [path |-> [productId |-> productId, part |-> field, key |-> Absent, value |-> Absent],
                  text |-> content, field |-> field,
                  productId |-> productId, productTitle |-> productTitle] >>
         ELSE << >>

\* a keyed occurrence whose name is taken when either kind of the pair is selected
KeyedItems_NameWithEither(occ, part, nameField, valueField, productId, productTitle, sourceLang, fields) ==
    (IF (nameField \in fields \/ valueField \in fields) /\ occ.name # << >>
     THEN << [path |-> [productId |-> productId, part |-> part, key |-> occ.name, value |-> << -1 >>],
              text |-> occ.name, field |-> nameField,
              productId |-> productId, productTitle |-> productTitle] >>
     ELSE << >>)

\* the items of one keyed occurrence (category_property or option): its name, then its values
KeyedItems(occ, part, nameField, valueField, productId, productTitle, sourceLang, fields) ==
    (IF nameField \in fields /\ containsSourceLanguage(occ.name, sourceLang)
     THEN << [path |-> [productId |-> productId, part |-> part, key |-> occ.name, value |-> Absent],
              text |-> occ.name, field |-> nameField,
              productId |-> productId, productTitle |-> productTitle] >>
     ELSE << >>)
    \o
    (IF valueField \in fields
     THEN Flatten([i \in 1..Len(occ.values) |->
            IF PlainCapture(occ.values[i]) /\ containsSourceLanguage(occ.values[i], sourceLang)
            THEN << [path |-> [productId |-> productId, part |-> part, key |-> occ.name, value |-> occ.values[i]],
                     text |-> occ.values[i], field |-> valueField,
                     productId |-> productId, productTitle |-> productTitle] >>
            ELSE << >>])
     ELSE << >>)

\* the items of one tab: its name, then its description
TabItems(tab, productId, productTitle, sourceLang, fields) ==
    (IF "tab_name" \in fields /\ containsSourceLanguage(tab.name, sourceLang)
     THEN << [path |-> [productId |-> productId, part |-> "tab", key |-> tab.name, value |-> Absent],
              text |-> tab.name, field |-> "tab_name",
              productId |-> productId, productTitle |-> productTitle] >>
     ELSE << >>)
    \o
    (IF "tab_description" \in fields /\ containsSourceLanguage(tab.description, sourceLang)
     THEN << [path |-> [productId |-> productId, part |-> "tab.description", key |-> tab.name, value |-> Absent],
              text |-> tab.description, field |-> "tab_description",
              productId |-> productId, productTitle |-> productTitle] >>
     ELSE << >>)

\* the body of the product loop of extractTranslatables, for the product at productIndex
ExtractProduct(p, productIndex, sourceLang, fields) ==
    LET productId == IF PlainCapture(p.id) THEN p.id ELSE UnknownPrefix \o DecimalString(productIndex)
        productTitle == IF PlainCapture(p.title) THEN p.title ELSE Untitled
    IN  extractTag(p.title, "title", FALSE, productId, productTitle, sourceLang, fields)
        \o extractTag(p.short_description, "short_description", TRUE, productId, productTitle, sourceLang, fields)
        \o extractTag(p.description, "description", TRUE, productId, productTitle, sourceLang, fields)
        \o extractTag(p.meta_title, "meta_title", FALSE, productId, productTitle, sourceLang, fields)
        \o extractTag(p.meta_description, "meta_description", TRUE, productId, productTitle, sourceLang, fields)
        \o extractTag(p.category, "category", FALSE, productId, productTitle, sourceLang, fields)
        \o (IF "category_property_name" \in fields \/ "category_property_value" \in fields
            THEN Flatten([i \in 1..Len(p.category_properties) |->
                    KeyedItems(p.category_properties[i], "category_property",
                               "category_property_name", "category_property_value",
                               productId, productTitle, sourceLang, fields)])
            ELSE << >>)
        \o (IF "tab_name" \in fields \/ "tab_description" \in fields
            THEN Flatten([i \in 1..Len(p.tabs) |->
                    TabItems(p.tabs[i], productId, productTitle, sourceLang, fields)])
            ELSE << >>)
        \o (IF "option_name" \in fields \/ "option_value" \in fields
            THEN Flatten([i \in 1..Len(p.options) |->
                    KeyedItems(p.options[i], "option", "option_name", "option_value",
                               productId, productTitle, sourceLang, fields)])
            ELSE << >>)

\* selectedFields: [given |-> FALSE] for undefined, else the Set in ids
NoSelection == [given |-> FALSE, ids |-> {}]
Selection(ids) == [given |-> TRUE, ids |-> ids]

extractTranslatables(products, sourceLang, selectedFields) ==
    LET fields == IF selectedFields.given THEN selectedFields.ids ELSE DefaultFields
    IN  Flatten([i \in 1..Len(products) |-> ExtractProduct(products[i], i - 1, sourceLang, fields)])

(***************************************************************************)
(* deduplicateItems: a Map keyed by text, in insertion order.              *)
(***************************************************************************)
\* index of text among the entries, 0 when there is none
IndexOfText(entries, text) ==
    IF \E i \in 1..Len(entries) : entries[i].text = text
    THEN CHOOSE i \in 1..Len(entries) : entries[i].text = text
    ELSE 0

\* an add that does not look for the field
AddField_Always(fs, f) == Append(fs, f)

\* Set.add on the insertion-ordered field set
AddField(fs, f) == IF \E i \in 1..Len(fs) : fs[i] = f THEN fs ELSE Append(fs, f)

\* an iteration that leaves the count of an existing entry alone
DedupStep_CountsOnce(map, item) ==
    LET k == IndexOfText(map, item.text)
    IN  IF k # 0
        THEN [map EXCEPT ![k] = [@ EXCEPT !.fields = AddField(@, item.field)]]
        ELSE Append(map, [text |-> item.text, fields |-> << item.field >>, count |-> 1])

\* one iteration of the loop over the items
DedupStep(map, item) ==
    LET k == IndexOfText(map, item.text)
    IN  IF k # 0
        THEN [map EXCEPT ![k] = [@ EXCEPT !.fields = AddField(@, item.field), !.count = @ + 1]]
        ELSE Append(map, [text |-> item.text, fields |-> << item.field >>, count |-> 1])

\* for (const item of items) { ... }
RECURSIVE DedupInto(_, _)
DedupInto(map, items) ==
    IF Len(items) = 0 THEN map
    ELSE IF Len(items) = 1 THEN DedupStep(map, items[1])
    ELSE LET first == DedupInto(map, FirstHalf(items))
         IN  IF Len(first) >= 0 THEN DedupInto(first, SecondHalf(items)) ELSE first

deduplicateItems(items) == DedupInto(<< >>, items)

(***************************************************************************)
(* Insertion-ordered maps (the JavaScript Map): a sequence of key/value    *)
(* records; setting an existing key keeps its position.                    *)
(***************************************************************************)
MapHas(map, k) == \E i \in 1..Len(map) : map[i].key = k

MapGet(map, k) == map[CHOOSE i \in 1..Len(map) : map[i].key = k].value

MapSet(map, k, v) ==
    IF MapHas(map, k)
    THEN [i \in 1..Len(map) |-> IF map[i].key = k THEN [key |-> k, value |-> v] ELSE map[i]]
    ELSE Append(map, [key |-> k, value |-> v])

MapKeys(map) == {map[i].key : i \in 1..Len(map)}

(***************************************************************************)
(* Industry profiles.  The glossary of a profile never changes; its        *)
(* context is a field of the shared profile object (variable industries).  *)
(***************************************************************************)
\* the profiles of the table that the model carries
IndustryIds == {"home-furniture", "custom"}

\* "Маса" -> "Table", "Стол" -> "Chair"
Masa == << 1052, 1072, 1089, 1072 >>
Stol == << 1057, 1090, 1086, 1083 >>

\* "Диван", "Легло", "Шкаф", "Лампа"
FurtherTerms ==
    << << 1044, 1080, 1074, 1072, 1085 >>,
       << 1051, 1077, 1075, 1083, 1086 >>,
       << 1064, 1082, 1072, 1092 >>,
       << 1051, 1072, 1084, 1087, 1072 >> >>

\* industry.glossary of the profile, its entries in the order of the source
GlossaryOf(id) ==
    IF id = "home-furniture"
    THEN << [key |-> << 1052, 1077, 1073, 1077, 1083, 1080 >>, value |-> << 70, 117, 114, 110, 105, 116, 117, 114, 101 >>],
            [key |-> Masa, value |-> << 84, 97, 98, 108, 101 >>],
            [key |-> Stol, value |-> << 67, 104, 97, 105, 114 >>],
            [key |-> FurtherTerms[1], value |-> << 83, 111, 102, 97 >>],
            [key |-> FurtherTerms[2], value |-> << 66, 101, 100 >>],
            [key |-> FurtherTerms[3], value |-> << 67, 97, 98, 105, 110, 101, 116 >>],
            [key |-> FurtherTerms[4], value |-> << 76, 97, 109, 112 >>],
            [key |-> << 1050, 1080, 1083, 1080, 1084 >>, value |-> << 82, 117, 103 >>],
            [key |-> << 1044, 1098, 1088, 1074, 1086 >>, value |-> << 87, 111, 111, 100 >>] >>
    ELSE << >>

\* the context fields of the table at process start
InitialContext == [id \in IndustryIds |-> IF id = "custom" THEN "" ELSE "context of " \o id]

\* a lookup that finds a profile for every id
getIndustry_AnyId(id) == [found |-> TRUE, id |-> id]

\* getIndustry: industries.find((i) => i.id === id); found is FALSE for undefined
getIndustry(id) == [found |-> id \in IndustryIds, id |-> id]

(***************************************************************************)
(* translateTexts, up to its first provider call.                          *)
(***************************************************************************)
BATCH_SIZE == 40
MAX_RETRIES == 3

\* "constructor", a property every object literal inherits from Object.prototype
Constructor == << 99, 111, 110, 115, 116, 114, 117, 99, 116, 111, 114 >>

\* a description of 501 Cyrillic letters, one more than the prompt shows of a text
LongText == [i \in 1..501 |-> 1041]

\* the value of that property, the function Object: a value that is no string
ObjectFunction == << -2 >>

\* the JSON number 7 in a parsed answer: a value that is no string
JsonNumber == << -3 >>

\* what the table holds for a value once join() has converted it to a string
NativeCode ==
    << 102, 117, 110, 99, 116, 105, 111, 110, 32, 79, 98, 106, 101, 99, 116, 40, 41, 32,
       123, 32, 91, 110, 97, 116, 105, 118, 101, 32, 99, 111, 100, 101, 93, 32, 125 >>

ToJoinString(value) ==
    IF value = ObjectFunction THEN NativeCode
    ELSE IF value = JsonNumber THEN << 55 >>
    ELSE value

\* industry.glossary[text]: the glossary is an object literal, so the lookup finds
\* its own entry for the text or, when it has none, an inherited property of that name
PropertyLookup(glossary, text) ==
    IF MapHas(glossary, text) THEN [found |-> TRUE, value |-> MapGet(glossary, text)]
    ELSE IF text = Constructor THEN [found |-> TRUE, value |-> ObjectFunction]
    ELSE [found |-> FALSE, value |-> << >>]

\* a glossary step that stores the text itself
GlossaryStep_KeepsText(translations, item, glossary) ==
    IF MapHas(glossary, item.text)
    THEN MapSet(translations, item.text, item.text)
    ELSE translations

\* the loop "First, apply glossary matches directly"
\* const glossaryMatch = industry.glossary[item.text]; if (glossaryMatch) translations.set(...)
GlossaryStep(translations, item, glossary) ==
    LET glossaryMatch == PropertyLookup(glossary, item.text)
    IN  IF glossaryMatch.found /\ glossaryMatch.value # << >>
        THEN MapSet(translations, item.text, glossaryMatch.value)
        ELSE translations

RECURSIVE GlossaryMatches(_, _, _)
GlossaryMatches(translations, texts, glossary) ==
    IF Len(texts) = 0 THEN translations
    ELSE IF Len(texts) = 1 THEN GlossaryStep(translations, texts[1], glossary)
    ELSE LET first == GlossaryMatches(translations, FirstHalf(texts), glossary)
         IN  IF Len(first) >= 0 THEN GlossaryMatches(first, SecondHalf(texts), glossary) ELSE first

\* no filtering: every text is batched
Remaining_Unfiltered(texts, translations) == texts

\* texts.filter((t) => !translations.has(t.text))
Remaining(texts, translations) == SelectSeq(texts, LAMBDA t : ~MapHas(translations, t.text))

\* a slice that never takes the last element of the array
Slice_DropsLast(seq, i, j) == SubSeq(seq, i + 1, IF j < Len(seq) THEN j ELSE Len(seq) - 1)

\* remaining.slice(i, j)
Slice(seq, i, j) == SubSeq(seq, i + 1, IF j < Len(seq) THEN j ELSE Len(seq))

\* for (let i = 0; i < remaining.length; i += BATCH_SIZE) batches.push(...)
RECURSIVE BatchesFrom(_, _)
BatchesFrom(remaining, i) ==
    IF i < Len(remaining)
    THEN << [texts |-> [k \in 1..Len(Slice(remaining, i, i + BATCH_SIZE)) |->
                          Slice(remaining, i, i + BATCH_SIZE)[k].text],
             fields |-> [k \in 1..Len(Slice(remaining, i, i + BATCH_SIZE)) |->
                          Slice(remaining, i, i + BATCH_SIZE)[k].fields]] >>
         \o BatchesFrom(remaining, i + BATCH_SIZE)
    ELSE << >>

MakeBatches(remaining) == BatchesFrom(remaining, 0)

\* the length above which translateBatch shortens a text for the prompt
DisplayLimit == 500

Ellipsis == << 46, 46, 46 >>

\* text.length > 500 ? text.substring(0, 500) + "..." : text
DisplayText(text) ==
    IF Len(text) > DisplayLimit THEN SubSeq(text, 1, DisplayLimit) \o Ellipsis ELSE text

\* the numbered list of the user prompt: `[i] (fields) displayText` per text of the batch
NumberedTexts(batch) ==
    [i \in 1..Len(batch.texts) |->
        [index |-> i, fieldInfo |-> batch.fields[i], displayText |-> DisplayText(batch.texts[i])]]

(***************************************************************************)
(* The provider and translateBatch's handling of one response.             *)
(***************************************************************************)
\* the translation the provider gives for a text: each code point moved to Latin
\* Extended, except that it leaves every eighth letter as it is (a name it keeps)
ProviderTranslation(text) ==
    [i \in 1..Len(text) |-> IF text[i] % 8 = 0 THEN text[i] ELSE 256 + (text[i] % 256)]

NoJson == [t |-> "invalid", elems |-> << >>]

\* answers that parse as JSON but are no array of strings: a JSON string with
\* as many characters as there are texts (indexing it yields its characters),
\* and an array of the right length whose first element is a number
OddResponses(texts) ==
    { [kind |-> "text", fence |-> "none",
       json |-> [t |-> "string", elems |-> [i \in 1..Len(texts) |-> << 97 >>]]],
      [kind |-> "text", fence |-> "none",
       json |-> [t |-> "array",
                 elems |-> [i \in 1..Len(texts) |->
                              IF i = 1 THEN JsonNumber ELSE ProviderTranslation(texts[i])]]] }

\* what the provider may answer to a call carrying these texts
Responses(texts) ==
    { [kind |-> "error", fence |-> "none", json |-> NoJson],
      [kind |-> "nontext", fence |-> "none", json |-> NoJson],
      [kind |-> "text", fence |-> "none", json |-> NoJson],
      [kind |-> "text", fence |-> "none",
       json |-> [t |-> "array", elems |-> [i \in 1..(Len(texts) - 1) |-> ProviderTranslation(texts[i])]]],
      [kind |-> "text", fence |-> "json",
       json |-> [t |-> "array", elems |-> [i \in 1..(Len(texts) - 1) |-> ProviderTranslation(texts[i])]]],
      [kind |-> "text", fence |-> "none",
       json |-> [t |-> "array", elems |-> [i \in 1..Len(texts) |-> ProviderTranslation(texts[i])]]],
      [kind |-> "text", fence |-> "json",
       json |-> [t |-> "array", elems |-> [i \in 1..Len(texts) |-> ProviderTranslation(texts[i])]]] }
    \cup (IF Len(texts) <= MaxOddBatch THEN OddResponses(texts) ELSE {})

NoError == [name |-> "none", expected |-> 0, got |-> 0]

\* a try block that takes what a short array holds
HandleResponse_AcceptsShort(resp, texts) ==
    IF resp.kind = "error"
    THEN [ok |-> FALSE, result |-> << >>, error |-> [name |-> "provider error", expected |-> 0, got |-> 0]]
    ELSE IF resp.kind # "text"
    THEN [ok |-> FALSE, result |-> << >>,
          error |-> [name |-> "Unexpected response type", expected |-> 0, got |-> 0]]
    ELSE IF resp.json.t = "invalid"
    THEN [ok |-> FALSE, result |-> << >>, error |-> [name |-> "SyntaxError", expected |-> 0, got |-> 0]]
    ELSE IF Len(resp.json.elems) > Len(texts)
    THEN [ok |-> FALSE, result |-> << >>,
          error |-> [name |-> "Expected translations", expected |-> Len(texts), got |-> Len(resp.json.elems)]]
    ELSE [ok |-> TRUE, error |-> NoError,
          result |-> [i \in 1..Len(resp.json.elems) |-> [key |-> texts[i], value |-> resp.json.elems[i]]]]

\* a try block that keys the Map by the texts as the prompt showed them
HandleResponse_KeysAsShown(resp, texts) ==
    IF resp.kind = "error"
    THEN [ok |-> FALSE, result |-> << >>, error |-> [name |-> "provider error", expected |-> 0, got |-> 0]]
    ELSE IF resp.kind # "text"
    THEN [ok |-> FALSE, result |-> << >>,
          error |-> [name |-> "Unexpected response type", expected |-> 0, got |-> 0]]
    ELSE IF resp.json.t = "invalid"
    THEN [ok |-> FALSE, result |-> << >>, error |-> [name |-> "SyntaxError", expected |-> 0, got |-> 0]]
    ELSE IF Len(resp.json.elems) # Len(texts)
    THEN [ok |-> FALSE, result |-> << >>,
          error |-> [name |-> "Expected translations", expected |-> Len(texts), got |-> Len(resp.json.elems)]]
    ELSE [ok |-> TRUE, error |-> NoError,
          result |-> [i \in 1..Len(texts) |-> [key |-> DisplayText(texts[i]), value |-> resp.json.elems[i]]]]

\* the body of the try block of translateBatch once the call has settled:
\* the Map it returns, or the error it throws
HandleResponse(resp, texts) ==
    IF resp.kind = "error"
    THEN [ok |-> FALSE, result |-> << >>, error |-> [name |-> "provider error", expected |-> 0, got |-> 0]]
    ELSE IF resp.kind # "text"
    THEN [ok |-> FALSE, result |-> << >>,
          error |-> [name |-> "Unexpected response type", expected |-> 0, got |-> 0]]
    ELSE IF resp.json.t = "invalid"
    THEN [ok |-> FALSE, result |-> << >>, error |-> [name |-> "SyntaxError", expected |-> 0, got |-> 0]]
    ELSE IF Len(resp.json.elems) # Len(texts)
    THEN [ok |-> FALSE, result |-> << >>,
          error |-> [name |-> "Expected translations", expected |-> Len(texts), got |-> Len(resp.json.elems)]]
    ELSE [ok |-> TRUE, error |-> NoError,
          result |-> [i \in 1..Len(texts) |-> [key |-> texts[i], value |-> resp.json.elems[i]]]]

\* a delay that does not grow with the attempt
BackoffDelay_Fixed(attempt) == 2000

\* setTimeout(r, 2000 * (attempt + 1))
BackoffDelay(attempt) == 2000 * (attempt + 1)

\* a merge that stops after the first pair
MergeInto_FirstOnly(translations, result) ==
    IF Len(result) = 0 THEN translations
    ELSE MapSet(translations, result[1].key, result[1].value)

\* for (const [original, translated] of batchTranslations) translations.set(original, translated)
RECURSIVE MergeInto(_, _)
MergeInto(translations, result) ==
    IF Len(result) = 0 THEN translations
    ELSE IF Len(result) = 1 THEN MapSet(translations, result[1].key, result[1].value)
    ELSE LET first == MergeInto(translations, FirstHalf(result))
         IN  IF Len(first) >= 0 THEN MergeInto(first, SecondHalf(result)) ELSE first

(***************************************************************************)
(* The document as the string the handler reads (file.text()): each markup *)
(* delimiter is one code point of the private use area, from U+E000.       *)
(***************************************************************************)
MarkupTags ==
    << "<product>", "</product>", "<id>", "</id>", "<title>", "</title>",
       "<short_description>", "</short_description>", "<description>", "</description>",
       "<meta_title>", "</meta_title>", "<meta_description>", "</meta_description>",
       "<category>", "</category>",
       "<category_property name=\"", "\">", "</category_property>",
       "<values>", "</values>", "<name>", "</name>",
       "<tab>", "</tab>", "<option name=\"", "</option>", "<value>", "</value>" >>

Markup(tag) == 57343 + (CHOOSE i \in 1..Len(MarkupTags) : MarkupTags[i] = tag)

RenderTag(open, content, close) ==
    IF content = Absent THEN << >> ELSE << Markup(open) >> \o content \o << Markup(close) >>

RenderKeyed(occ, open, close, valueOpen, valueClose) ==
    << Markup(open) >> \o occ.name \o << Markup("\">"), Markup("<values>") >>
    \o Flatten([i \in 1..Len(occ.values) |-> RenderTag(valueOpen, occ.values[i], valueClose)])
    \o << Markup("</values>"), Markup(close) >>

RenderProduct(p) ==
    << Markup("<product>") >>
    \o RenderTag("<id>", p.id, "</id>")
    \o RenderTag("<title>", p.title, "</title>")
    \o RenderTag("<short_description>", p.short_description, "</short_description>")
    \o RenderTag("<description>", p.description, "</description>")
    \o RenderTag("<meta_title>", p.meta_title, "</meta_title>")
    \o RenderTag("<meta_description>", p.meta_description, "</meta_description>")
    \o RenderTag("<category>", p.category, "</category>")
    \o Flatten([i \in 1..Len(p.category_properties) |->
          RenderKeyed(p.category_properties[i], "<category_property name=\"", "</category_property>",
                      "<name>", "</name>")])
    \o Flatten([i \in 1..Len(p.tabs) |->
          << Markup("<tab>") >> \o RenderTag("<name>", p.tabs[i].name, "</name>")
          \o RenderTag("<description>", p.tabs[i].description, "</description>")
          \o << Markup("</tab>") >>])
    \o Flatten([i \in 1..Len(p.options) |->
          RenderKeyed(p.options[i], "<option name=\"", "</option>", "<value>", "</value>")])
    \o << Markup("</product>") >>

Render(products) == Flatten([i \in 1..Len(products) |-> RenderProduct(products[i])])

(***************************************************************************)
(* applyTranslations.                                                      *)
(***************************************************************************)
\* a match that compares the first code unit only
OccursAt_FirstOnly(s, original, i) == s[i] = original[1]

\* original occurs in s at position i
OccursAt(s, original, i) == \A k \in 1..Len(original) : s[i + k - 1] = original[k]

\* the positions from `from` on at which original occurs in s
OccurrencesFrom(s, original, from) ==
    {i \in from..(Len(s) - Len(original) + 1) : OccursAt(s, original, i)}

SetMin(S) == CHOOSE x \in S : \A y \in S : x <= y

\* s.split(original).join(translated) for a non-empty original, scanning from position `from`
RECURSIVE ReplaceFrom(_, _, _, _)
ReplaceFrom(s, original, translated, from) ==
    LET occ == OccurrencesFrom(s, original, from)
    IN  IF occ = {}
        THEN SubSeq(s, from, Len(s))
        ELSE SubSeq(s, from, SetMin(occ) - 1) \o translated
             \o ReplaceFrom(s, original, translated, SetMin(occ) + Len(original))

\* s.split("").join(translated): translated between every two code units
Intersperse(s, translated) ==
    Flatten([i \in 1..Len(s) |-> IF i < Len(s) THEN << s[i] >> \o translated ELSE << s[i] >>])

\* result.split(original).join(translated)
SplitJoin(s, original, translated) ==
    IF original = << >> THEN Intersperse(s, translated)
    ELSE ReplaceFrom(s, original, translated, 1)

\* the entries whose key has length len, in their order
EntriesOfLength(entries, len) == SelectSeq(entries, LAMBDA e : Len(e.key) = len)

\* [...translations.entries()].sort((a, b) => b[0].length - a[0].length): stable, longest first
\* the greatest key length below len, -1 when there is none
NextLength(entries, len) ==
    LET below == {Len(entries[i].key) : i \in 1..Len(entries)} \cap 0..(len - 1)
    IN  IF below = {} THEN -1 ELSE CHOOSE n \in below : \A m \in below : m <= n

RECURSIVE SortFrom(_, _)
SortFrom(entries, len) ==
    IF len < 0 THEN << >>
    ELSE EntriesOfLength(entries, len) \o SortFrom(entries, NextLength(entries, len))

\* no sorting: the entries in insertion order
SortByLengthDesc_Unsorted(entries) == entries

SortByLengthDesc(entries) ==
    IF entries = << >> THEN << >>
    ELSE SortFrom(entries, CHOOSE n \in {Len(entries[i].key) : i \in 1..Len(entries)} :
                             \A i \in 1..Len(entries) : Len(entries[i].key) <= n)

\* if (original === translated) continue; result = result.split(original).join(translated)
ApplyEntry(result, entry) ==
    IF entry.key = entry.value THEN result
    ELSE SplitJoin(result, entry.key, ToJoinString(entry.value))

\* for (const [original, translated] of sortedEntries) { ... }
RECURSIVE ApplyEntries(_, _)
ApplyEntries(result, sortedEntries) ==
    IF Len(sortedEntries) = 0 THEN result
    ELSE IF Len(sortedEntries) = 1 THEN ApplyEntry(result, sortedEntries[1])
    ELSE LET first == ApplyEntries(result, FirstHalf(sortedEntries))
         IN  IF Len(first) >= 0 THEN ApplyEntries(first, SecondHalf(sortedEntries)) ELSE first

applyTranslations(xmlContent, translations) ==
    ApplyEntries(xmlContent, SortByLengthDesc(translations))

(***************************************************************************)
(* Inputs: the documents and the requests the model draws from.            *)
(***************************************************************************)
\* the i-th generated text: one Cyrillic code point
V(i) == << 1024 + i >>

\* numbers of generated texts: none, one, and around each multiple of BATCH_SIZE
SmallSizes == {0, 1}
Sizes ==
    SmallSizes \cup {k * BATCH_SIZE + d : k \in 1..MaxFullBatches, d \in {-1, 0, 1}}

\* a feed whose first product has one category property with h glossary terms
\* ("Маса" first, "Стол" last, for h = 6 four more after "Маса") around n
\* generated values, and whose second product repeats the first generated
\* value as its category and, when w = 1, has the short description
\* "constructor", when w = 2 a description of 501 letters
Doc(n, h, w) ==
    << [EmptyProduct EXCEPT
          !.id = << 49 >>, !.title = << 65 >>,
          !.category_properties =
             << [name |-> << 67 >>,
                 values |-> (IF h >= 1 THEN << Masa >> ELSE << >>)
                            \o (IF h >= 6 THEN FurtherTerms ELSE << >>)
                            \o [i \in 1..n |-> V(i)]
                            \o (IF h >= 2 THEN << Stol >> ELSE << >>)] >>],
       [EmptyProduct EXCEPT
          !.id = << 50 >>, !.title = << 66 >>,
          !.short_description = IF w = 1 THEN Constructor ELSE IF w = 2 THEN LongText ELSE Absent,
          !.category = IF n >= 1 THEN V(1) ELSE Absent] >>

\* an upload is named by the parameters of its document; Products gives its content
Docs == {[n |-> n, h |-> h, w |-> 0] : n \in Sizes, h \in {0, 2}}
        \cup {[n |-> n, h |-> 1, w |-> 0] : n \in SmallSizes}
SmallDocs == {d \in Docs : d.n \in SmallSizes}

NoFile == [present |-> FALSE, doc |-> [n |-> 0, h |-> 0, w |-> 0]]
File(n, h, w) == [present |-> TRUE, doc |-> [n |-> n, h |-> h, w |-> w]]
Products(file) == Doc(file.doc.n, file.doc.h, file.doc.w)

\* fieldsJson: null, a text JSON.parse rejects, a JSON value new Set() cannot
\* iterate (a number, an object), or the JSON array of the ids
FieldsNull == [kind |-> "null", ids |-> {}]
FieldsInvalid == [kind |-> "invalid", ids |-> {}]
FieldsNonIterable == [kind |-> "noniterable", ids |-> {}]
FieldsArray(ids) == [kind |-> "array", ids |-> ids]

BaseRequest ==
    [formOk |-> TRUE, file |-> File(1, 1, 0), fileOk |-> TRUE,
     industry |-> "home-furniture", sourceLang |-> "bg", targetLang |-> "en",
     apiKey |-> "sk", customContext |-> "", fieldsJson |-> FieldsNull]

\* well-formed requests: every document under the furniture profile, the small
\* ones under the custom profile without and with a custom context
ValidRequests ==
    {[BaseRequest EXCEPT !.file = File(d.n, d.h, d.w)] : d \in Docs}
    \cup {[BaseRequest EXCEPT !.file = File(d.n, d.h, d.w), !.industry = "custom", !.customContext = c] :
            d \in SmallDocs, c \in {"", "ctxA"}}

\* the base request with one or two things changed
VariedRequests ==
    { [BaseRequest EXCEPT !.formOk = FALSE],
      [BaseRequest EXCEPT !.fileOk = FALSE],
      [BaseRequest EXCEPT !.file = NoFile],
      [BaseRequest EXCEPT !.industry = ""],
      [BaseRequest EXCEPT !.industry = "toys"],
      [BaseRequest EXCEPT !.sourceLang = ""],
      [BaseRequest EXCEPT !.targetLang = ""],
      [BaseRequest EXCEPT !.apiKey = ""],
      [BaseRequest EXCEPT !.customContext = "ctxA"],
      [BaseRequest EXCEPT !.sourceLang = "en"],
      [BaseRequest EXCEPT !.sourceLang = "en", !.file = File(1, 1, 1)],
      [BaseRequest EXCEPT !.sourceLang = "en", !.file = File(0, 0, 1), !.industry = "custom"],
      [BaseRequest EXCEPT !.file = File(1, 0, 2)],
      [BaseRequest EXCEPT !.file = File(74, 6, 0)],
      [BaseRequest EXCEPT !.sourceLang = "el"],
      [BaseRequest EXCEPT !.fieldsJson = FieldsInvalid],
      [BaseRequest EXCEPT !.fieldsJson = FieldsNonIterable],
      [BaseRequest EXCEPT !.fieldsJson = FieldsArray({})],
      [BaseRequest EXCEPT !.fieldsJson = FieldsArray({"category"})],
      [BaseRequest EXCEPT !.fieldsJson = FieldsArray(AllFields)] }

\* what an empty request slot holds
NoRequest == [BaseRequest EXCEPT !.formOk = FALSE, !.file = NoFile]

RequestInputs == ValidRequests \cup VariedRequests

\* the request slots of the process; a slot that holds no request stays "absent"
Requests == {1, 2}

(***************************************************************************)
(* State.                                                                  *)
(***************************************************************************)
VARIABLES
    industries,   \* the process-wide profile table: id -> [context]
    request,      \* per request: the form data it was sent with
    pc,           \* per request: the await the handler is suspended at
    trace,        \* per request: what it did so far, in program order: events sent,
                  \*   close() calls, provider calls and replies, merges, backoff waits
    tt,           \* per request: the frame of translateTexts: its argument texts, its
                  \*   table, its batches, the batch it is at, its progress counters
    tb,           \* per request: the frame of the running translateBatch
    outcome,      \* per request: how translateTexts settled
    lastResponse, \* per request: the provider's latest answer
    eval          \* a library function called on its own: its name, its arguments,
                  \*   whether it has returned, its result

vars == << industries, request, pc, trace, tt, tb, outcome, lastResponse, eval >>

NoEval == [f |-> "none", args |-> << >>, done |-> FALSE, result |-> << >>]

NoResponse == [kind |-> "none", fence |-> "none", json |-> NoJson]
NoFrameTT ==
    [texts |-> << >>, translations |-> << >>, batches |-> << >>, batch |-> 0, completed |-> 0, total |-> 0]
NoFrameTB == [attempt |-> 0, lastError |-> NoError, systemPrompt |-> [context |-> "", from |-> "", to |-> "", glossary |-> << >>],
     numberedTexts |-> << >>]
Pending == [state |-> "pending", error |-> NoError]

(***************************************************************************)
(* Trace entries.                                                          *)
(***************************************************************************)
\* the caller has cancelled the response stream
Abandoned(tr) == \E i \in 1..Len(tr) : tr[i].op = "cancel"

\* sendEvent(data): controller.enqueue of the encoded event; on a cancelled
\* stream enqueue throws and nothing is sent (the caller of sendEvent in the
\* model continues in the catch block)
sendEvent(tr, data) ==
    IF Abandoned(tr) THEN Append(tr, [op |-> "enqueue", threw |-> TRUE])
    ELSE Append(tr, [op |-> "event", data |-> data])

\* a close() that leaves the channel open
Close_Never(tr) == tr

\* controller.close(); it throws when the channel is closed or cancelled already
Close(tr) ==
    Append(tr, [op |-> "close", threw |-> \E i \in 1..Len(tr) : tr[i].op \in {"close", "cancel"}])

(***************************************************************************)
(* Number arithmetic of the progress callback. A Number is an IEEE 754      *)
(* binary64 value; the ones that occur here are zero and mant * 2^exp with  *)
(* mant a sequence of Precision bits, most significant first, starting      *)
(* with 1. Every operation rounds its exact result to the nearest such      *)
(* value, ties to the even mantissa.                                        *)
(***************************************************************************)
Precision == 53

Zero == [mant |-> [i \in 1..Precision |-> 0], exp |-> 0]

\* the natural number a bit sequence of at most 30 bits stands for
RECURSIVE BitsValue(_)
BitsValue(bits) ==
    IF Len(bits) = 0 THEN 0
    ELSE IF Len(bits) = 1 THEN bits[1]
    ELSE BitsValue(FirstHalf(bits)) * 2^(Len(bits) - Len(bits) \div 2) + BitsValue(SecondHalf(bits))

\* the last width bits of a natural number
BinaryOf(n, width) == [i \in 1..width |-> (n \div 2^(width - i)) % 2]

\* the number of bits of a natural number below 2^30, 0 for 0
BitLength(n) == CHOOSE w \in 0..30 : n < 2^w /\ (w = 0 \/ n >= 2^(w - 1))

\* the bit sequence plus one; one bit longer when all bits were 1
Increment(bits) ==
    LET zeros == {i \in 1..Len(bits) : bits[i] = 0}
    IN  IF zeros = {} THEN << 1 >> \o [i \in 1..Len(bits) |-> 0]
        ELSE LET last == CHOOSE i \in zeros : \A k \in zeros : k <= i
             IN  [i \in 1..Len(bits) |-> IF i < last THEN bits[i] ELSE IF i = last THEN 1 ELSE 0]

\* the Number nearest to bits * 2^exp, plus a non-zero part below the last
\* bit when sticky; bits has at least Precision bits and starts with 1
RoundToPrecision(bits, sticky, exp) ==
    LET kept == SubSeq(bits, 1, Precision)
        dropped == Len(bits) - Precision
        half == dropped >= 1 /\ bits[Precision + 1] = 1
        below == sticky \/ \E i \in (Precision + 2)..Len(bits) : bits[i] = 1
        up == half /\ (below \/ kept[Precision] = 1)
        rounded == IF up THEN Increment(kept) ELSE kept
    IN  IF Len(rounded) > Precision
        THEN [mant |-> SubSeq(rounded, 1, Precision), exp |-> exp + dropped + 1]
        ELSE [mant |-> rounded, exp |-> exp + dropped]

\* 2^e modulo d, for e <= 60 and d < 2^15
TwoToThe(e, d) == ((2^(e \div 2) % d) * (2^(e - e \div 2) % d)) % d

\* what is left of r after n bits of the binary expansion of r / d, for r < d
RemainderAfter(r, d, n) == (r * TwoToThe(n, d)) % d

\* the first n bits of the binary expansion of r / d, for r < d
QuotientBits(r, d, n) == [i \in 1..n |-> (2 * RemainderAfter(r, d, i - 1)) \div d]

\* the least k with c * 2^k >= t
ShiftUp(c, t) == CHOOSE k \in 0..30 : c * 2^k >= t /\ (k = 0 \/ c * 2^(k - 1) < t)

\* the greatest j with t * 2^j <= c, for c >= t
ShiftDown(c, t) == CHOOSE j \in 0..30 : t * 2^j <= c /\ c \div 2^(j + 1) < t

\* completed / total for naturals c and t >= 1: the quotient of the two
\* Numbers, rounded
Divide(c, t) ==
    IF c = 0 THEN Zero
    ELSE LET k == ShiftUp(c, t)
             j == IF c >= t THEN ShiftDown(c, t) ELSE 0
             n == c * 2^k
             d == t * 2^j
         IN  RoundToPrecision(<< 1 >> \o QuotientBits(n - d, d, Precision),
                              RemainderAfter(n - d, d, Precision) # 0,
                              j - k - Precision)

\* bits * m as a bit sequence without leading zeros, for Precision bits that
\* start with 1 and a natural 1 <= m < 128: by parts of 7, 23 and 23 bits
TimesSmall(bits, m) ==
    LET low == BitsValue(SubSeq(bits, 31, 53)) * m
        mid == BitsValue(SubSeq(bits, 8, 30)) * m + low \div 2^23
        high == BitsValue(SubSeq(bits, 1, 7)) * m + mid \div 2^23
    IN  BinaryOf(high, BitLength(high)) \o BinaryOf(mid % 2^23, 23) \o BinaryOf(low % 2^23, 23)

\* x * m for a Number x and a natural 1 <= m < 128: the product, rounded
Multiply(x, m) ==
    IF x = Zero THEN Zero
    ELSE RoundToPrecision(TimesSmall(x.mant, m), FALSE, x.exp)

\* Math.round(x) for a Number 0 <= x < 2^Precision: the nearest integer, a tie going up
MathRound(x) ==
    IF x = Zero THEN 0
    ELSE LET whole == Precision + x.exp
         IN  IF whole < 0 THEN 0
             ELSE BitsValue(SubSeq(x.mant, 1, whole))
                  + (IF whole < Precision THEN x.mant[whole + 1] ELSE 0)

\* Math.round((completed / total) * 100)
Percent(completed, total) == MathRound(Multiply(Divide(completed, total), 100))

\* the onProgress callback the handler passes to translateTexts
onProgress(tr, completed, total) ==
    sendEvent(tr, [type |-> "progress", completed |-> completed, total |-> total,
                   percent |-> Percent(completed, total)])

\* a catch block that only closes the channel
CatchFinally_Silent(tr, err) == Close(tr)

\* the catch and finally blocks of the handler
CatchFinally(tr, err) ==
    Close(sendEvent(tr, [type |-> "error", message |-> "Translation failed", err |-> err]))

\* an early return that closes the channel without an error event
RejectFinally_Silent(tr, message) == Close(Close(tr))

\* an early return of the try block: the error event, close(), return, then finally's close()
RejectFinally(tr, message) ==
    IF Abandoned(tr)
    THEN CatchFinally(sendEvent(tr, [type |-> "error", message |-> message, err |-> NoError]),
                      [name |-> "TypeError", expected |-> 0, got |-> 0])
    ELSE Close(Close(sendEvent(tr, [type |-> "error", message |-> message, err |-> NoError])))

getLanguageName(code) ==
    CASE code = "bg" -> "Bulgarian"
      [] code = "en" -> "English"
      [] code = "el" -> "Greek"
      [] OTHER -> code

\* the system prompt translateBatch builds when it is entered
SystemPrompt(ind, sourceLang, targetLang) ==
    [context |-> industries[ind].context, from |-> getLanguageName(sourceLang),
     to |-> getLanguageName(targetLang), glossary |-> GlossaryOf(ind)]

\* client.messages.create for attempt `attempt` of batch number b; the user
\* prompt lists the texts of that batch, batches[b].texts
CallEntry(b, attempt, systemPrompt) ==
    [op |-> "call", batch |-> b, attempt |-> attempt, system |-> systemPrompt]

(***************************************************************************)
(* The request handler and the orchestrator, one action per resumption     *)
(* of the handler: everything between two awaits runs without interleaving.*)
(***************************************************************************)
Err(name) == [name |-> name, expected |-> 0, got |-> 0]

\* entering translateBatch for batch number b: the prompt is built, attempt 0 is issued
EnterBatch(r, tr, frame, b) ==
    \E systemPrompt \in {SystemPrompt(request[r].industry, request[r].sourceLang, request[r].targetLang)} :
        /\ trace' = [trace EXCEPT ![r] = Append(tr, CallEntry(b, 0, systemPrompt))]
        /\ tt' = [tt EXCEPT ![r] = [frame EXCEPT !.batch = b]]
        /\ tb' = [tb EXCEPT ![r] = [attempt |-> 0, lastError |-> NoError, systemPrompt |-> systemPrompt,
                                        numberedTexts |-> NumberedTexts(frame.batches[b])]]
        /\ outcome' = [outcome EXCEPT ![r] = Pending]
        /\ pc' = [pc EXCEPT ![r] = "call"]

\* translateTexts returns its table
ReturnTable(r, tr, frame) ==
    /\ trace' = [trace EXCEPT ![r] = tr]
    /\ tt' = [tt EXCEPT ![r] = frame]
    /\ tb' = [tb EXCEPT ![r] = NoFrameTB]
    /\ outcome' = [outcome EXCEPT ![r] = [state |-> "returned", error |-> NoError]]
    /\ pc' = [pc EXCEPT ![r] = "resume"]

\* a translateTexts that reports no progress before its first batch
translateTexts_NoUpfront(r, tr, texts) ==
    \E translations \in {GlossaryMatches(<< >>, texts, GlossaryOf(request[r].industry))} :
    \E remaining \in {Remaining(texts, translations)} :
        IF Len(remaining) = 0
        THEN ReturnTable(r, onProgress(tr, Len(texts), Len(texts)),
                         [texts |-> texts, translations |-> translations, batches |-> << >>,
                          batch |-> 0, completed |-> Len(texts), total |-> Len(texts)])
        ELSE \E frame \in {[texts |-> texts, translations |-> translations,
                            batches |-> MakeBatches(remaining),
                            batch |-> 0, completed |-> Len(texts) - Len(remaining),
                            total |-> Len(texts)]} :
                EnterBatch(r, tr, frame, 1)

\* translateTexts(unique, ...) up to its first await, called by the handler with trace tr.
\* (A value bound by \E x \in {e} is evaluated once.)
translateTexts(r, tr, texts) ==
    \E translations \in {GlossaryMatches(<< >>, texts, GlossaryOf(request[r].industry))} :
    \E remaining \in {Remaining(texts, translations)} :
        IF Len(remaining) = 0
        THEN ReturnTable(r, onProgress(tr, Len(texts), Len(texts)),
                         [texts |-> texts, translations |-> translations, batches |-> << >>,
                          batch |-> 0, completed |-> Len(texts), total |-> Len(texts)])
        ELSE \E frame \in {[texts |-> texts, translations |-> translations,
                            batches |-> MakeBatches(remaining),
                            batch |-> 0, completed |-> Len(texts) - Len(remaining),
                            total |-> Len(texts)]} :
                EnterBatch(r, onProgress(tr, frame.completed, Len(texts)), frame, 1)

\* the handler ends without having called translateTexts
Finish(r, tr) ==
    /\ trace' = [trace EXCEPT ![r] = tr]
    /\ pc' = [pc EXCEPT ![r] = "done"]
    /\ UNCHANGED << tt, tb, outcome >>

\* req.formData() settles: validation, profile lookup, custom context
POST_FormData(r) ==
    /\ pc[r] = "formData"
    /\ LET req == request[r]
           industry == getIndustry(req.industry)
       IN  IF ~req.formOk
           THEN Finish(r, CatchFinally(trace[r], Err("formData rejected"))) /\ UNCHANGED industries
           ELSE IF \/ ~req.file.present \/ req.industry = "" \/ req.sourceLang = ""
                   \/ req.targetLang = "" \/ req.apiKey = ""
           THEN Finish(r, RejectFinally(trace[r], "Missing required fields")) /\ UNCHANGED industries
           ELSE IF ~industry.found
           THEN Finish(r, RejectFinally(trace[r], "Unknown industry")) /\ UNCHANGED industries
           ELSE /\ industries' =
                      IF req.customContext # "" /\ req.industry = "custom"
                      THEN [industries EXCEPT ![industry.id].context = req.customContext]
                      ELSE industries
                /\ IF Abandoned(trace[r])
                   THEN Finish(r, CatchFinally(
                                    sendEvent(trace[r], [type |-> "status", message |-> "Reading XML feed..."]),
                                    Err("TypeError")))
                   ELSE /\ trace' = [trace EXCEPT ![r] =
                              sendEvent(@, [type |-> "status", message |-> "Reading XML feed..."])]
                        /\ pc' = [pc EXCEPT ![r] = "fileText"]
                        /\ UNCHANGED << tt, tb, outcome >>
    /\ UNCHANGED << request, lastResponse, eval >>

\* the status event without the stats event before it
AnnounceStats_StatusOnly(tr, items, unique) ==
    sendEvent(tr, [type |-> "status", message |-> "Found unique texts to translate"])

\* the stats event and the status event that follow deduplication
AnnounceStats(tr, items, unique) ==
    sendEvent(
      sendEvent(tr, [type |-> "stats",
                     totalProducts |-> Cardinality({items[i].productId : i \in 1..Len(items)}),
                     totalItems |-> Len(items), uniqueItems |-> Len(unique)]),
      [type |-> "status", message |-> "Found unique texts to translate"])

\* file.text() settles: parse the selection, extract, deduplicate, start translateTexts
POST_FileText(r) ==
    /\ pc[r] = "fileText"
    /\ LET req == request[r]
           tr1 == sendEvent(trace[r], [type |-> "status", message |-> "Parsing feed structure..."])
           selectedFields == IF req.fieldsJson.kind = "null" THEN NoSelection
                             ELSE Selection(req.fieldsJson.ids)
       IN  IF ~req.fileOk
           THEN Finish(r, CatchFinally(trace[r], Err("file.text rejected")))
           ELSE IF Abandoned(trace[r])
           THEN Finish(r, CatchFinally(tr1, Err("TypeError")))
           ELSE IF req.fieldsJson.kind = "invalid"
           THEN Finish(r, CatchFinally(tr1, Err("SyntaxError")))
           ELSE IF req.fieldsJson.kind = "noniterable"
           THEN Finish(r, CatchFinally(tr1, Err("TypeError")))
           ELSE \E items \in {extractTranslatables(Products(req.file), req.sourceLang, selectedFields)} :
                   IF Len(items) = 0
                   THEN Finish(r, RejectFinally(tr1, "No translatable content found"))
                   ELSE \E unique \in {deduplicateItems(items)} :
                           translateTexts(r, AnnounceStats(tr1, items, unique), unique)
    /\ UNCHANGED << industries, request, lastResponse, eval >>

\* going on to the next batch without reporting progress
BatchDone_NoReport(r, tr, result) ==
    \E merged \in {[tt[r] EXCEPT !.translations = MergeInto(@, result),
                                 !.completed = @ + Len(tt[r].batches[tt[r].batch].texts)]} :
        IF tt[r].batch < Len(tt[r].batches)
        THEN EnterBatch(r, Append(tr, [op |-> "merge", batch |-> tt[r].batch]),
                        merged, tt[r].batch + 1)
        ELSE ReturnTable(r, onProgress(Append(tr, [op |-> "merge", batch |-> tt[r].batch]),
                                       merged.completed, merged.total),
                         merged)

\* going on to the next batch whatever the progress report did
BatchDone_IgnoresChannel(r, tr, result) ==
    \E merged \in {[tt[r] EXCEPT !.translations = MergeInto(@, result),
                                 !.completed = @ + Len(tt[r].batches[tt[r].batch].texts)]} :
        IF tt[r].batch < Len(tt[r].batches)
        THEN EnterBatch(r, onProgress(Append(tr, [op |-> "merge", batch |-> tt[r].batch]),
                                      merged.completed, merged.total),
                        merged, tt[r].batch + 1)
        ELSE ReturnTable(r, onProgress(Append(tr, [op |-> "merge", batch |-> tt[r].batch]),
                                       merged.completed, merged.total),
                         merged)

\* a batch succeeded with result: merge, report progress, go on; when the
\* progress report throws (cancelled stream) translateTexts throws with it
BatchDone(r, tr, result) ==
    \E merged \in {[tt[r] EXCEPT !.translations = MergeInto(@, result),
                                 !.completed = @ + Len(tt[r].batches[tt[r].batch].texts)]} :
        IF Abandoned(tr)
        THEN /\ trace' = [trace EXCEPT ![r] =
                    onProgress(Append(tr, [op |-> "merge", batch |-> tt[r].batch]),
                               merged.completed, merged.total)]
             /\ tt' = [tt EXCEPT ![r] = merged]
             /\ outcome' = [outcome EXCEPT ![r] = [state |-> "threw", error |-> Err("TypeError")]]
             /\ pc' = [pc EXCEPT ![r] = "resume"]
             /\ UNCHANGED tb
        ELSE
        IF tt[r].batch < Len(tt[r].batches)
        THEN EnterBatch(r, onProgress(Append(tr, [op |-> "merge", batch |-> tt[r].batch]),
                                      merged.completed, merged.total),
                        merged, tt[r].batch + 1)
        ELSE ReturnTable(r, onProgress(Append(tr, [op |-> "merge", batch |-> tt[r].batch]),
                                       merged.completed, merged.total),
                         merged)

\* giving up with the error of the attempt before the last one
AttemptFailed_StaleError(r, tr, error) ==
    IF tb[r].attempt < MAX_RETRIES - 1
    THEN /\ trace' = [trace EXCEPT ![r] = Append(tr, [op |-> "wait", ms |-> BackoffDelay(tb[r].attempt)])]
         /\ tb' = [tb EXCEPT ![r].lastError = error]
         /\ pc' = [pc EXCEPT ![r] = "backoff"]
         /\ UNCHANGED << tt, outcome >>
    ELSE /\ trace' = [trace EXCEPT ![r] = tr]
         /\ tb' = [tb EXCEPT ![r].lastError = error]
         /\ outcome' = [outcome EXCEPT ![r] = [state |-> "threw", error |-> tb[r].lastError]]
         /\ pc' = [pc EXCEPT ![r] = "resume"]
         /\ UNCHANGED tt

\* a retry loop that allows one attempt more
AttemptFailed_OneMoreTry(r, tr, error) ==
    IF tb[r].attempt < MAX_RETRIES
    THEN /\ trace' = [trace EXCEPT ![r] = Append(tr, [op |-> "wait", ms |-> BackoffDelay(tb[r].attempt)])]
         /\ tb' = [tb EXCEPT ![r].lastError = error]
         /\ pc' = [pc EXCEPT ![r] = "backoff"]
         /\ UNCHANGED << tt, outcome >>
    ELSE /\ trace' = [trace EXCEPT ![r] = tr]
         /\ tb' = [tb EXCEPT ![r].lastError = error]
         /\ outcome' = [outcome EXCEPT ![r] = [state |-> "threw", error |-> error]]
         /\ pc' = [pc EXCEPT ![r] = "resume"]
         /\ UNCHANGED tt

\* an attempt failed with error: back off and retry, or give up
AttemptFailed(r, tr, error) ==
    IF tb[r].attempt < MAX_RETRIES - 1
    THEN /\ trace' = [trace EXCEPT ![r] = Append(tr, [op |-> "wait", ms |-> BackoffDelay(tb[r].attempt)])]
         /\ tb' = [tb EXCEPT ![r].lastError = error]
         /\ pc' = [pc EXCEPT ![r] = "backoff"]
         /\ UNCHANGED << tt, outcome >>
    ELSE /\ trace' = [trace EXCEPT ![r] = tr]
         /\ tb' = [tb EXCEPT ![r].lastError = error]
         /\ outcome' = [outcome EXCEPT ![r] = [state |-> "threw", error |-> error]]
         /\ pc' = [pc EXCEPT ![r] = "resume"]
         /\ UNCHANGED tt

\* client.messages.create settles with resp: the rest of the attempt, and what follows it
Settle(r, resp) ==
    /\ pc[r] = "call"
    /\ \E h \in {HandleResponse(resp, tt[r].batches[tt[r].batch].texts)} :
          IF h.ok
          THEN BatchDone(r, Append(trace[r], [op |-> "reply", ok |-> TRUE]), h.result)
          ELSE AttemptFailed(r, Append(trace[r], [op |-> "reply", ok |-> FALSE]), h.error)
    /\ lastResponse' = [lastResponse EXCEPT ![r] = resp]
    /\ UNCHANGED << industries, request, eval >>

ProviderResponds(r) ==
    /\ pc[r] = "call"
    /\ \E resp \in Responses(tt[r].batches[tt[r].batch].texts) : Settle(r, resp)

\* a retry that does not count an attempt that failed to parse
BackoffElapsed_ParseErrorFree(r) ==
    /\ pc[r] = "backoff"
    /\ tb' = [tb EXCEPT ![r].attempt = IF tb[r].lastError.name = "SyntaxError" THEN @ ELSE @ + 1]
    /\ trace' = [trace EXCEPT ![r] =
          Append(@, CallEntry(tt[r].batch, tb'[r].attempt, tb[r].systemPrompt))]
    /\ pc' = [pc EXCEPT ![r] = "call"]
    /\ UNCHANGED << industries, request, tt, outcome, lastResponse, eval >>

\* the backoff timer fires: the next attempt of the same batch is issued
BackoffElapsed(r) ==
    /\ pc[r] = "backoff"
    /\ tb' = [tb EXCEPT ![r].attempt = @ + 1]
    /\ trace' = [trace EXCEPT ![r] =
          Append(@, CallEntry(tt[r].batch, tb[r].attempt + 1, tb[r].systemPrompt))]
    /\ pc' = [pc EXCEPT ![r] = "call"]
    /\ UNCHANGED << industries, request, tt, outcome, lastResponse, eval >>

\* a handler that completes with whatever the table holds
POST_Resume_Partial(r) ==
    /\ pc[r] = "resume"
    /\ \E translatedXml \in {applyTranslations(Render(Products(request[r].file)),
                                                tt[r].translations)} :
          trace' = [trace EXCEPT ![r] =
             Close(sendEvent(
               sendEvent(@, [type |-> "status", message |-> "Applying translations to feed..."]),
               [type |-> "complete", translatedXml |-> translatedXml,
                translationCount |-> Len(tt[r].translations),
                message |-> "Successfully translated"]))]
    /\ pc' = [pc EXCEPT ![r] = "done"]
    /\ UNCHANGED << industries, request, tt, tb, outcome, lastResponse, eval >>

\* the handler resumes from await translateTexts(...)
POST_Resume(r) ==
    /\ pc[r] = "resume"
    /\ IF outcome[r].state = "returned"
       THEN \E translatedXml \in {applyTranslations(Render(Products(request[r].file)),
                                                     tt[r].translations)} :
               trace' = [trace EXCEPT ![r] =
                  Close(sendEvent(
                    sendEvent(@, [type |-> "status", message |-> "Applying translations to feed..."]),
                    [type |-> "complete", translatedXml |-> translatedXml,
                     translationCount |-> Len(tt[r].translations),
                     message |-> "Successfully translated"]))]
       ELSE trace' = [trace EXCEPT ![r] = CatchFinally(@, outcome[r].error)]
    /\ pc' = [pc EXCEPT ![r] = "done"]
    /\ UNCHANGED << industries, request, tt, tb, outcome, lastResponse, eval >>

Init ==
    /\ industries = [id \in IndustryIds |-> [context |-> InitialContext[id]]]
    /\ request \in {[r \in Requests |-> IF r = 1 THEN q ELSE NoRequest] : q \in RequestInputs}
    /\ pc = [r \in Requests |-> IF r = 1 THEN "formData" ELSE "absent"]
    /\ trace = [r \in Requests |-> << >>]
    /\ tt = [r \in Requests |-> NoFrameTT]
    /\ tb = [r \in Requests |-> NoFrameTB]
    /\ outcome = [r \in Requests |-> [state |-> "none", error |-> NoError]]
    /\ lastResponse = [r \in Requests |-> NoResponse]
    /\ eval = NoEval

Next ==
    \/ \E r \in Requests : POST_FormData(r)
    \/ \E r \in Requests : POST_FileText(r)
    \/ \E r \in Requests : ProviderResponds(r)
    \/ \E r \in Requests : BackoffElapsed(r)
    \/ \E r \in Requests : POST_Resume(r)

Spec == Init /\ [][Next]_vars

\* every provider call settles and every backoff timer fires: the two awaits
\* of translateBatch do not stay pending for ever
AwaitsSettle ==
    \A r \in Requests : WF_vars(ProviderResponds(r)) /\ WF_vars(BackoffElapsed(r))

\* the requests of Init, those with glossary terms in feeds of at most two batches
FairInit ==
    /\ Init
    /\ \A r \in Requests :
          request[r].file.doc.h = 2 => request[r].file.doc.n <= BATCH_SIZE + 1

FairSpec == FairInit /\ [][Next]_vars /\ AwaitsSettle

(***************************************************************************)
(* A caller that may abandon its request: while the handler is suspended   *)
(* at an await (form read, file read, provider call, backoff wait) the     *)
(* response stream is cancelled. The continuation of `await                *)
(* translateTexts` runs in the same turn as the settlement before it, so   *)
(* no cancellation comes in between.                                       *)
(***************************************************************************)
Cancel(r) ==
    /\ pc[r] \in {"formData", "fileText", "call", "backoff"}
    /\ ~Abandoned(trace[r])
    /\ trace' = [trace EXCEPT ![r] = Append(@, [op |-> "cancel"])]
    /\ UNCHANGED << industries, request, pc, tt, tb, outcome, lastResponse, eval >>

CancelNext ==
    \/ Next
    \/ \E r \in Requests : Cancel(r)

CancelSpec == Init /\ [][CancelNext]_vars

(***************************************************************************)
(* applyTranslations called on its own, on documents over the letters a    *)
(* and b and on tables made of the entries below.                          *)
(***************************************************************************)
MaxDocLen == 4
MaxTableSize == 2

\* the strings over a and b of length n
RECURSIVE StringsOfLength(_)
StringsOfLength(n) ==
    IF n = 0 THEN {<< >>}
    ELSE {Append(w, c) : w \in StringsOfLength(n - 1), c \in {97, 98}}

ApplyDocs == UNION {StringsOfLength(n) : n \in 0..MaxDocLen}

\* "ab" -> "abx" with "b" -> "bx" (a translation that contains a shorter
\* original), the swap "a" -> "b", "b" -> "a", entries that map a text to
\* itself, "ab" -> "x", and the empty original
ApplyCatalogue ==
    { [key |-> << 97, 98 >>, value |-> << 97, 98, 120 >>],
      [key |-> << 98 >>, value |-> << 98, 120 >>],
      [key |-> << 97 >>, value |-> << 98 >>],
      [key |-> << 98 >>, value |-> << 97 >>],
      [key |-> << 97 >>, value |-> << 97 >>],
      [key |-> << 98 >>, value |-> << 98 >>],
      [key |-> << 97, 98 >>, value |-> << 120 >>],
      [key |-> << >>, value |-> << 120 >>] }

\* the tables of n entries with distinct originals, in every insertion order
RECURSIVE TablesOfSize(_)
TablesOfSize(n) ==
    IF n = 0 THEN {<< >>}
    ELSE {Append(t, e) : t \in TablesOfSize(n - 1),
                         e \in ApplyCatalogue}

DistinctKeys(table) == \A i, j \in 1..Len(table) : table[i].key = table[j].key => i = j

ApplyTables == {t \in UNION {TablesOfSize(n) : n \in 0..MaxTableSize} : DistinctKeys(t)}

ApplyInit ==
    /\ industries = [id \in IndustryIds |-> [context |-> InitialContext[id]]]
    /\ request = [r \in Requests |-> NoRequest]
    /\ pc = [r \in Requests |-> "absent"]
    /\ trace = [r \in Requests |-> << >>]
    /\ tt = [r \in Requests |-> NoFrameTT]
    /\ tb = [r \in Requests |-> NoFrameTB]
    /\ outcome = [r \in Requests |-> [state |-> "none", error |-> NoError]]
    /\ lastResponse = [r \in Requests |-> NoResponse]
    /\ eval \in {[f |-> "applyTranslations", args |-> [xmlContent |-> d, translations |-> t],
                   done |-> FALSE, result |-> << >>] : d \in ApplyDocs, t \in ApplyTables}

\* applyTranslations(xmlContent, translations) returns
ApplyReturns ==
    /\ eval.f = "applyTranslations"
    /\ ~eval.done
    /\ eval' = [eval EXCEPT !.done = TRUE,
                            !.result = applyTranslations(eval.args.xmlContent, eval.args.translations)]
    /\ UNCHANGED << industries, request, pc, trace, tt, tb, outcome, lastResponse >>

ApplySpec == ApplyInit /\ [][ApplyReturns]_vars

(***************************************************************************)
(* extractTranslatables called on its own.                                 *)
(***************************************************************************)
\* selections hold at most MaxSelected kinds, or all kinds but at most one
MaxSelected == 2

\* no request is being handled
IdleHandlers ==
    /\ industries = [id \in IndustryIds |-> [context |-> InitialContext[id]]]
    /\ request = [r \in Requests |-> NoRequest]
    /\ pc = [r \in Requests |-> "absent"]
    /\ trace = [r \in Requests |-> << >>]
    /\ tt = [r \in Requests |-> NoFrameTT]
    /\ tb = [r \in Requests |-> NoFrameTB]
    /\ outcome = [r \in Requests |-> [state |-> "none", error |-> NoError]]
    /\ lastResponse = [r \in Requests |-> NoResponse]

\* a product with Cyrillic text in every place; the meta title repeats the
\* title, a property value repeats the category and is followed by a Latin one
FullProduct ==
    [id |-> << 49 >>, title |-> V(1), short_description |-> V(2),
     description |-> << 60, 112, 62 >> \o V(3) \o << 60, 47, 112, 62 >>,
     meta_title |-> V(1), meta_description |-> V(4), category |-> V(5),
     category_properties |-> << [name |-> V(6), values |-> << V(7), << 67 >>, V(5) >>] >>,
     tabs |-> << [name |-> V(8), description |-> V(9)] >>,
     options |-> << [name |-> V(10), values |-> << V(11) >>],
                    [name |-> << 83 >>, values |-> << V(7) >>] >>]

\* a product without an id, with Latin and Cyrillic texts mixed within the
\* pairs and a category of one blank
MixedProduct ==
    [EmptyProduct EXCEPT
       !.title = << 65 >>, !.short_description = V(2), !.category = << 32 >>,
       !.category_properties = << [name |-> << 67 >>, values |-> << V(1) >>] >>,
       !.tabs = << [name |-> << 84 >>, description |-> V(9)], [name |-> V(8), description |-> << 68 >>] >>,
       !.options = << [name |-> V(10), values |-> << << 77 >> >>] >>]

\* a product whose texts are empty or blank in every kind of place, next to
\* a title with blanks around a Cyrillic letter, a meta title of U+0085 and a
\* property value of U+200B (two code points trim does not strip)
BlankProduct ==
    [EmptyProduct EXCEPT
       !.id = << 51 >>, !.title = << 32, 1041, 32 >>, !.short_description = << 32 >>,
       !.description = << >>, !.meta_title = << 133 >>, !.meta_description = << 10, 9 >>,
       !.category = << 12288 >>,
       !.category_properties = << [name |-> << >>, values |-> << << >>, << 32 >>, << 8203 >>, V(1) >>],
                                  [name |-> << 160 >>, values |-> << >>] >>,
       !.tabs = << [name |-> << 32 >>, description |-> << >>],
                   [name |-> << >>, description |-> << 32, 1042 >>] >>,
       !.options = << [name |-> << 32, 32 >>, values |-> << << 9 >>, << >> >>] >>]

ExtractDocs == { << >>, << FullProduct >>, << FullProduct, MixedProduct >>, << BlankProduct >> }

ExtractLangs == {"bg", "el", "en"}

\* the Sets a field list can give: of known kinds and of the unknown "price"
ExtractSelections ==
    {NoSelection}
    \cup {Selection(ids) : ids \in {S \in SUBSET (AllFields \cup {"price"}) : Cardinality(S) <= MaxSelected}}
    \cup {Selection(AllFields \ ex) : ex \in {S \in SUBSET AllFields : Cardinality(S) <= 1}}

ExtractInit ==
    /\ IdleHandlers
    /\ eval \in {[f |-> "extractTranslatables",
                   args |-> [products |-> d, sourceLang |-> l, selectedFields |-> sel],
                   done |-> FALSE, result |-> << >>] :
                     d \in ExtractDocs, l \in ExtractLangs, sel \in ExtractSelections}

\* extractTranslatables(xmlContent, sourceLang, selectedFields) returns
ExtractReturns ==
    /\ eval.f = "extractTranslatables"
    /\ ~eval.done
    /\ eval' = [eval EXCEPT !.done = TRUE,
                            !.result = extractTranslatables(eval.args.products, eval.args.sourceLang,
                                                            eval.args.selectedFields)]
    /\ UNCHANGED << industries, request, pc, trace, tt, tb, outcome, lastResponse >>

ExtractSpec == ExtractInit /\ [][ExtractReturns]_vars

(***************************************************************************)
(* deduplicateItems called on its own, on sequences of at most MaxItems    *)
(* items.                                                                  *)
(***************************************************************************)
MaxItems == 4

\* an item of product "1" with the given text and field
Item(text, field) ==
    [path |-> [productId |-> << 49 >>, part |-> field, key |-> Absent, value |-> Absent],
     text |-> text, field |-> field, productId |-> << 49 >>, productTitle |-> << 65 >>]

\* two generated texts and "constructor", each as a title and as a category
DedupItemKinds ==
    {Item(t, f) : t \in {V(1), V(2), Constructor}, f \in {"title", "category"}}

RECURSIVE ItemSeqsOfLength(_)
ItemSeqsOfLength(n) ==
    IF n = 0 THEN {<< >>}
    ELSE {Append(q, it) : q \in ItemSeqsOfLength(n - 1), it \in DedupItemKinds}

DedupInputs == UNION {ItemSeqsOfLength(n) : n \in 0..MaxItems}

DedupInit ==
    /\ IdleHandlers
    /\ eval \in {[f |-> "deduplicateItems", args |-> [items |-> items],
                   done |-> FALSE, result |-> << >>] : items \in DedupInputs}

\* deduplicateItems(items) returns
DedupReturns ==
    /\ eval.f = "deduplicateItems"
    /\ ~eval.done
    /\ eval' = [eval EXCEPT !.done = TRUE, !.result = deduplicateItems(eval.args.items)]
    /\ UNCHANGED << industries, request, pc, trace, tt, tb, outcome, lastResponse >>

DedupSpec == DedupInit /\ [][DedupReturns]_vars

(***************************************************************************)
(* containsSourceLanguage called on its own, on texts of at most           *)
(* MaxTextLen code units (every pair of the code units below, and longer   *)
(* texts filled up with blanks and "a").                                   *)
(***************************************************************************)
MaxTextLen == 2

\* the first and last code unit of each character class of the function and
\* their neighbours, a character of each script outside its class (U+0500,
\* U+1F00, U+FF76, U+D7B0), the space, the ideographic space and "a"
DetectCodeUnits ==
    { 879, 880, 1023, 1024, 1279, 1280, 7936,
      1423, 1424, 1535, 1536, 1791, 1792,
      12351, 12352, 12543, 12544, 65398,
      19967, 19968, 40959, 40960,
      44031, 44032, 55215, 55216,
      32, 12288, 97 }

\* the code units that fill a text up
Fillers == {32, 12288, 97}

\* the texts of n code units of which at most two are no fillers
TextsOfLength(n) ==
    {t \in [1..n -> DetectCodeUnits] : Cardinality({i \in 1..n : t[i] \notin Fillers}) <= 2}

\* the codes the switch lists, two Latin-script codes, and an empty code
ListedLangs == {"bg", "ru", "sr", "mk", "uk", "el", "zh", "ja", "ko", "ar", "he"}
DetectLangs == ListedLangs \cup {"en", "de", ""}

DetectInit ==
    /\ IdleHandlers
    /\ \E n \in 0..MaxTextLen : \E t \in TextsOfLength(n) : \E l \in DetectLangs :
          eval = [f |-> "containsSourceLanguage", args |-> [text |-> t, sourceLang |-> l],
                  done |-> FALSE, result |-> FALSE]

\* containsSourceLanguage(text, sourceLang) returns
DetectReturns ==
    /\ eval.f = "containsSourceLanguage"
    /\ ~eval.done
    /\ eval' = [eval EXCEPT !.done = TRUE,
                            !.result = containsSourceLanguage(eval.args.text, eval.args.sourceLang)]
    /\ UNCHANGED << industries, request, pc, trace, tt, tb, outcome, lastResponse >>

DetectSpec == DetectInit /\ [][DetectReturns]_vars


(***************************************************************************)
(* Reading a request's trace.                                              *)
(***************************************************************************)
IsEvent(e, type) == e.op = "event" /\ e.data.type = type

EventPositions(tr, type) == {i \in 1..Len(tr) : IsEvent(tr[i], type)}

TerminalPositions(tr) == EventPositions(tr, "complete") \cup EventPositions(tr, "error")

CallPositions(tr) == {i \in 1..Len(tr) : tr[i].op = "call"}

CallsOfBatch(tr, b) == {i \in CallPositions(tr) : tr[i].batch = b}

ReplyPositions(tr) == {i \in 1..Len(tr) : tr[i].op = "reply"}

WaitPositions(tr) == {i \in 1..Len(tr) : tr[i].op = "wait"}

SetMax(S) == CHOOSE x \in S : \A y \in S : y <= x

\* the replies to a third attempt that failed: the retry budget of that batch is used up
ExhaustedReplies(tr) ==
    {p \in ReplyPositions(tr) : ~tr[p].ok /\ tr[p - 1].attempt = 2}

\* how a response to a call carrying n texts fails, "none" when it does not
FailureKind(resp, n) ==
    CASE resp.kind = "error" -> "provider error"
      [] resp.kind = "nontext" -> "non-text response"
      [] resp.kind = "text" /\ resp.json.t = "invalid" -> "parse error"
      [] resp.kind = "text" /\ resp.json.t = "array" /\ Len(resp.json.elems) # n -> "length mismatch"
      [] OTHER -> "none"

\* the texts the entries passed to translateTexts that have no glossary entry
MissTexts(r) ==
    LET misses == SelectSeq(tt[r].texts,
                            LAMBDA e : ~MapHas(GlossaryOf(request[r].industry), e.text))
    IN  [i \in 1..Len(misses) |-> misses[i].text]

\* the entries passed to translateTexts that have a glossary entry
HitEntries(r) ==
    SelectSeq(tt[r].texts, LAMBDA e : MapHas(GlossaryOf(request[r].industry), e.text))

(***************************************************************************)
(* C1: for every request, at most one terminal event (complete or error)   *)
(* is ever emitted, exactly one has been emitted once the handler has      *)
(* ended, and no status, stats or progress event follows it.               *)
(***************************************************************************)
C1_ExactlyOneTerminalEvent ==
    \A r \in Requests :
        LET tr == trace[r]
            terminal == TerminalPositions(tr)
        IN  /\ Cardinality(terminal) <= 1
            /\ pc[r] = "done" => Cardinality(terminal) = 1
            /\ \A i \in terminal : \A j \in (i + 1)..Len(tr) :
                  ~(tr[j].op = "event" /\ tr[j].data.type \in {"status", "stats", "progress"})

\* a request that ended with an error event after progress had been reported
C1_EndedAfterProgress ==
    /\ pc[1] = "done"
    /\ EventPositions(trace[1], "progress") # {}
    /\ EventPositions(trace[1], "error") # {}
    /\ WaitPositions(trace[1]) # {}

(***************************************************************************)
(* C2: if a batch used up its retry budget, the request emits no complete  *)
(* event, it has emitted an error event once the handler has ended, and no *)
(* event carries a translated document or a translation count, also when   *)
(* earlier batches had been merged.                                        *)
(***************************************************************************)
C2_ExhaustedBatchEndsInError ==
    \A r \in Requests :
        LET tr == trace[r]
        IN  ExhaustedReplies(tr) # {} =>
              /\ EventPositions(tr, "complete") = {}
              /\ pc[r] = "done" => Cardinality(EventPositions(tr, "error")) = 1
              /\ \A i \in 1..Len(tr) :
                    tr[i].op = "event" =>
                       {"translatedXml", "translationCount"} \cap DOMAIN tr[i].data = {}

\* the second batch used up its budget after the first had been merged, and the handler ended
C2_FailedAfterMergedBatch ==
    /\ pc[1] = "done"
    /\ \E p \in ExhaustedReplies(trace[1]) : trace[1][p - 1].batch = 2
    /\ \E i \in 1..Len(trace[1]) : trace[1][i].op = "merge" /\ trace[1][i].batch = 1
    /\ Len(tt[1].translations) >= BATCH_SIZE

(***************************************************************************)
(* C3: for every batch at most 3 provider calls are issued, each call of a *)
(* batch is the attempt numbered by the calls of that batch before it, and *)
(* an answer counts as a failed attempt exactly when it is a provider      *)
(* error, a non-text response, a text that is not JSON or an array of the  *)
(* wrong length: all four draw on the same budget.                         *)
(***************************************************************************)
C3_OneBudgetOfThreeCalls ==
    \A r \in Requests :
        LET tr == trace[r]
        IN  /\ \A b \in 1..Len(tt[r].batches) : Cardinality(CallsOfBatch(tr, b)) <= 3
            /\ \A i \in CallPositions(tr) :
                  tr[i].attempt = Cardinality({j \in CallsOfBatch(tr, tr[i].batch) : j < i})
            /\ ReplyPositions(tr) # {} =>
                  LET p == SetMax(ReplyPositions(tr))
                      n == Len(tt[r].batches[tr[p - 1].batch].texts)
                  IN  tr[p].ok <=> FailureKind(lastResponse[r], n) = "none"

\* a batch whose third call was answered by an array of the wrong length,
\* after an earlier attempt of it had failed
C3_ThirdAttemptLengthMismatch ==
    /\ Cardinality(CallsOfBatch(trace[1], 1)) = 3
    /\ ReplyPositions(trace[1]) # {}
    /\ SetMax(ReplyPositions(trace[1])) > SetMax(CallPositions(trace[1]))
    /\ FailureKind(lastResponse[1], Len(tt[1].batches[1].texts)) = "length mismatch"
    /\ tb[1].lastError.name = "Expected translations"

(***************************************************************************)
(* C4: when the third attempt of a batch has failed, translateTexts has    *)
(* thrown the error of that third attempt, the table holds no text of that *)
(* batch, and no provider call follows, for that batch or a later one.     *)
(***************************************************************************)
C4_ExhaustedBatchThrowsLastError ==
    \A r \in Requests :
        LET tr == trace[r]
        IN  \A p \in ExhaustedReplies(tr) :
               LET texts == tt[r].batches[tr[p - 1].batch].texts
               IN  /\ outcome[r].state = "threw"
                   /\ outcome[r].error = HandleResponse(lastResponse[r], texts).error
                   /\ outcome[r].error # NoError
                   /\ \A k \in 1..Len(texts) : ~MapHas(tt[r].translations, texts[k])
                   /\ \A j \in CallPositions(tr) : j < p /\ tr[j].batch <= tr[p - 1].batch

\* the second batch failed three times, the third time with a parse error,
\* and a third batch was waiting
C4_SecondBatchExhausted ==
    /\ \E p \in ExhaustedReplies(trace[1]) : trace[1][p - 1].batch = 2
    /\ Len(tt[1].batches) = 3
    /\ outcome[1].error.name = "SyntaxError"

(***************************************************************************)
(* C5: every backoff wait directly follows the failed attempt k (k = 1, 2) *)
(* of a batch, lasts 2000*k ms and is directly followed by attempt k+1 of  *)
(* the same batch; no wait follows a successful attempt or a failed third  *)
(* attempt; and a batch that succeeds on its third attempt has had exactly *)
(* two waits and its texts are mapped to that third answer.                *)
(***************************************************************************)
C5_BackoffOnlyBetweenAttempts ==
    \A r \in Requests :
        LET tr == trace[r]
        IN  /\ \A i \in WaitPositions(tr) :
                  /\ i > 2
                  /\ tr[i - 1].op = "reply" /\ ~tr[i - 1].ok
                  /\ tr[i - 2].op = "call" /\ tr[i - 2].attempt \in {0, 1}
                  /\ tr[i].ms = 2000 * (tr[i - 2].attempt + 1)
                  /\ i < Len(tr) =>
                        /\ tr[i + 1].op = "call"
                        /\ tr[i + 1].batch = tr[i - 2].batch
                        /\ tr[i + 1].attempt = tr[i - 2].attempt + 1
            /\ \A p \in ReplyPositions(tr) :
                  /\ (tr[p].ok \/ tr[p - 1].attempt = 2) =>
                        (p < Len(tr) => tr[p + 1].op # "wait")
                  /\ (~tr[p].ok /\ tr[p - 1].attempt < 2) =>
                        (p < Len(tr) /\ tr[p + 1].op = "wait")
                  /\ (tr[p].ok /\ tr[p - 1].attempt = 2) =>
                        LET b == tr[p - 1].batch
                            first == CHOOSE i \in CallsOfBatch(tr, b) : tr[i].attempt = 0
                            texts == tt[r].batches[b].texts
                        IN  /\ Cardinality({i \in WaitPositions(tr) : first < i /\ i < p}) = 2
                            /\ p = SetMax(ReplyPositions(tr)) =>
                                  \A k \in 1..Len(texts) :
                                     /\ MapHas(tt[r].translations, texts[k])
                                     /\ MapGet(tt[r].translations, texts[k])
                                           = lastResponse[r].json.elems[k]

\* the second batch succeeded on its third attempt
C5_ThirdAttemptSucceeded ==
    \E p \in ReplyPositions(trace[1]) :
        /\ trace[1][p].ok
        /\ trace[1][p - 1].attempt = 2
        /\ trace[1][p - 1].batch = 2
        /\ p = SetMax(ReplyPositions(trace[1]))


(***************************************************************************)
(* C6: within a request there is a reply between any two provider calls    *)
(* (at most one call is in flight), calls go through the batches in order, *)
(* and the first call of batch i+1 comes after the merge of batch i and a  *)
(* progress report that follows that merge.                                *)
(***************************************************************************)
C6_BatchesStrictlySequential ==
    \A r \in Requests :
        LET tr == trace[r]
        IN  /\ Cardinality(CallPositions(tr)) - Cardinality(ReplyPositions(tr)) \in {0, 1}
            /\ \A i, j \in CallPositions(tr) :
                  i < j => /\ tr[i].batch <= tr[j].batch
                           /\ \E k \in ReplyPositions(tr) : i < k /\ k < j
            /\ \A j \in CallPositions(tr) :
                  tr[j].attempt = 0 =>
                     IF tr[j].batch = 1
                     THEN \A i \in CallPositions(tr) : j <= i
                     ELSE \E m \in 1..(j - 1) :
                             /\ tr[m].op = "merge"
                             /\ tr[m].batch = tr[j].batch - 1
                             /\ \E q \in EventPositions(tr, "progress") : m < q /\ q < j

\* the third batch has been called
C6_ThirdBatchCalled ==
    /\ CallsOfBatch(trace[1], 3) # {}
    /\ WaitPositions(trace[1]) # {}

(***************************************************************************)
(* C7: while every provider call has succeeded on its first attempt, the   *)
(* call of batch i carries the texts at positions [i*40, (i+1)*40) of the  *)
(* sequence of the entries without a glossary entry, no call carries an    *)
(* empty batch, and once translateTexts has returned it has issued         *)
(* ceil(N/40) calls for the N entries without a glossary entry.            *)
(***************************************************************************)
C7_BatchesCoverTheMissSequence ==
    \A r \in Requests :
        LET tr == trace[r]
            misses == MissTexts(r)
            N == Len(misses)
        IN  (\A p \in ReplyPositions(tr) : tr[p].ok) =>
               /\ \A i \in CallPositions(tr) :
                     LET b == tr[i].batch
                         sent == tt[r].batches[b].texts
                     IN  /\ sent = SubSeq(misses, (b - 1) * 40 + 1, IF b * 40 < N THEN b * 40 ELSE N)
                         /\ Len(sent) >= 1
                         /\ b * 40 < N => Len(sent) = 40
               /\ outcome[r].state = "returned" =>
                     Cardinality(CallPositions(tr)) = (N + 39) \div 40

\* an English feed with the text "constructor": translateTexts returned a table
\* that maps it to the function Object, and the only call did not carry it
C7_ConstructorTakenForGlossaryHit ==
    /\ outcome[1].state = "returned"
    /\ MapHas(tt[1].translations, Constructor)
    /\ MapGet(tt[1].translations, Constructor) = ObjectFunction
    /\ ~MapHas(GlossaryOf(request[1].industry), Constructor)
    /\ Cardinality(CallPositions(trace[1])) = 1
    /\ \A k \in 1..Len(tt[1].batches[1].texts) : tt[1].batches[1].texts[k] # Constructor

(***************************************************************************)
(* C8 as stated: once translateTexts has returned with every call having   *)
(* succeeded, the table has exactly N entries, N the number of entries     *)
(* without a glossary entry.                                               *)
(***************************************************************************)
C8_TableSizeIsMissCount ==
    \A r \in Requests :
        (outcome[r].state = "returned" /\ \A p \in ReplyPositions(trace[r]) : trace[r][p].ok) =>
            Cardinality(MapKeys(tt[r].translations)) = Len(MissTexts(r))

(***************************************************************************)
(* C8 amended: once translateTexts has returned, the table has exactly one *)
(* entry per entry passed to it: N plus the number of glossary hits.       *)
(***************************************************************************)
C8_TableSizeIsEntryCount ==
    \A r \in Requests :
        outcome[r].state = "returned" =>
            /\ Cardinality(MapKeys(tt[r].translations)) = Len(MissTexts(r)) + Len(HitEntries(r))
            /\ Len(tt[r].translations) = Len(MissTexts(r)) + Len(HitEntries(r))

\* translateTexts returned after two batches, with two glossary hits in the table
C8_ReturnedWithHitsAndMisses ==
    /\ outcome[1].state = "returned"
    /\ Len(HitEntries(1)) = 2
    /\ Len(MissTexts(1)) > BATCH_SIZE
    /\ \A p \in ReplyPositions(trace[1]) : trace[1][p].ok

(***************************************************************************)
(* C9: an entry whose text has a glossary entry in the selected profile is *)
(* in no batch, and from the start of translateTexts on the table maps its *)
(* text to the glossary value; so no text of a batch is a glossary key.    *)
(***************************************************************************)
C9_GlossaryHitsBypassProvider ==
    \A r \in Requests :
        LET glossary == GlossaryOf(request[r].industry)
        IN  /\ \A i \in 1..Len(tt[r].texts) :
                  LET text == tt[r].texts[i].text
                  IN  MapHas(glossary, text) =>
                         /\ \A b \in 1..Len(tt[r].batches) :
                               \A k \in 1..Len(tt[r].batches[b].texts) :
                                  tt[r].batches[b].texts[k] # text
                         /\ MapHas(tt[r].translations, text)
                         /\ MapGet(tt[r].translations, text) = MapGet(glossary, text)
            /\ \A b \in 1..Len(tt[r].batches) :
                  \A k \in 1..Len(tt[r].batches[b].texts) :
                     ~MapHas(glossary, tt[r].batches[b].texts[k])

\* two glossary hits, and two batches of other texts merged after them
C9_HitsKeptThroughMerges ==
    /\ Len(HitEntries(1)) = 2
    /\ \E i \in 1..Len(trace[1]) : trace[1][i].op = "merge" /\ trace[1][i].batch = 2
    /\ MapGet(tt[1].translations, Masa) = << 84, 97, 98, 108, 101 >>

(***************************************************************************)
(* C10: when every entry passed to translateTexts has a glossary entry, no *)
(* provider call is issued, exactly one progress report is made, with      *)
(* completed = total = the number of entries, and the table returned holds *)
(* exactly the glossary mapping of each entry.                             *)
(***************************************************************************)
C10_AllHitsNeedNoProvider ==
    \A r \in Requests :
        LET glossary == GlossaryOf(request[r].industry)
            texts == tt[r].texts
            tr == trace[r]
        IN  (Len(texts) > 0 /\ \A i \in 1..Len(texts) : MapHas(glossary, texts[i].text)) =>
               /\ CallPositions(tr) = {}
               /\ Cardinality(EventPositions(tr, "progress")) = 1
               /\ \A q \in EventPositions(tr, "progress") :
                     tr[q].data.completed = Len(texts) /\ tr[q].data.total = Len(texts)
               /\ outcome[r].state = "returned"
               /\ tt[r].translations =
                     [i \in 1..Len(texts) |->
                        [key |-> texts[i].text, value |-> MapGet(glossary, texts[i].text)]]

\* a feed whose two texts are both glossary terms, handled to its end
C10_TwoTermsOnly ==
    /\ pc[1] = "done"
    /\ Len(tt[1].texts) = 2
    /\ Len(HitEntries(1)) = 2
    /\ EventPositions(trace[1], "complete") # {}


(***************************************************************************)
(* C11: every progress report has total = the number of entries passed to  *)
(* translateTexts and completed = the number of entries with a glossary    *)
(* entry plus the texts of the batches merged before it; completed never   *)
(* decreases, never exceeds total, is not advanced by a batch that used up *)
(* its attempts, and is total in the last report once translateTexts has   *)
(* returned.                                                               *)
(***************************************************************************)
\* the number of texts in the first m batches
RECURSIVE TextsInBatches(_, _)
TextsInBatches(batches, m) ==
    IF m = 0 THEN 0 ELSE Len(batches[m].texts) + TextsInBatches(batches, m - 1)

\* the number of batches merged before position q of the trace
MergedBefore(tr, q) == Cardinality({i \in 1..(q - 1) : tr[i].op = "merge"})

C11_ProgressCountsHitsAndMergedBatches ==
    \A r \in Requests :
        LET tr == trace[r]
            reports == EventPositions(tr, "progress")
        IN  /\ \A q \in reports :
                  /\ tr[q].data.total = Len(tt[r].texts)
                  /\ tr[q].data.completed =
                        Len(HitEntries(r)) + TextsInBatches(tt[r].batches, MergedBefore(tr, q))
                  /\ tr[q].data.completed <= tr[q].data.total
            /\ \A q1, q2 \in reports : q1 < q2 => tr[q1].data.completed <= tr[q2].data.completed
            /\ \A p \in ExhaustedReplies(tr) : \A q \in reports : q < p
            /\ (outcome[r].state = "returned" /\ reports # {}) =>
                  tr[SetMax(reports)].data.completed = tr[SetMax(reports)].data.total

\* the first report of a request counts more entries than have a glossary entry
C11_ReportCountsConstructor ==
    \E q \in EventPositions(trace[1], "progress") :
        /\ MergedBefore(trace[1], q) = 0
        /\ trace[1][q].data.completed = Len(HitEntries(1)) + 1
        /\ MapHas(tt[1].translations, Constructor)


(***************************************************************************)
(* C12: when the latest answer of the provider is a text that is not JSON  *)
(* (with or without a code fence around it) or an array whose length is    *)
(* not the number of texts of the batch, the attempt has failed: no text   *)
(* of that batch is in the table, the batch has not been merged, and if    *)
(* the attempt was the first or second a wait and then the next attempt of *)
(* the same batch follow.                                                  *)
(***************************************************************************)
C12_UnparsableOrShortAnswerFails ==
    \A r \in Requests :
        LET tr == trace[r]
        IN  ReplyPositions(tr) # {} =>
               LET p == SetMax(ReplyPositions(tr))
                   b == tr[p - 1].batch
                   texts == tt[r].batches[b].texts
               IN  FailureKind(lastResponse[r], Len(texts)) \in {"parse error", "length mismatch"} =>
                      /\ ~tr[p].ok
                      /\ \A k \in 1..Len(texts) : ~MapHas(tt[r].translations, texts[k])
                      /\ \A i \in 1..Len(tr) : tr[i].op = "merge" => tr[i].batch # b
                      /\ tr[p - 1].attempt < 2 =>
                            /\ p < Len(tr) /\ tr[p + 1].op = "wait"
                            /\ p + 1 < Len(tr) =>
                                  /\ tr[p + 2].op = "call"
                                  /\ tr[p + 2].batch = b
                                  /\ tr[p + 2].attempt = tr[p - 1].attempt + 1
                      /\ tr[p - 1].attempt = 2 => outcome[r].state = "threw"

\* a fenced array that is one element short was answered to the first
\* attempt of the second batch, and the second attempt has been issued
C12_FencedShortArrayRetried ==
    /\ lastResponse[1].fence = "json"
    /\ ReplyPositions(trace[1]) # {}
    /\ LET p == SetMax(ReplyPositions(trace[1]))
       IN  /\ trace[1][p - 1].batch = 2 /\ trace[1][p - 1].attempt = 0
           /\ Len(lastResponse[1].json.elems) = Len(tt[1].batches[2].texts) - 1
           /\ Len(trace[1]) = p + 2
           /\ trace[1][p + 2].op = "call"

(***************************************************************************)
(* C13: when the latest answer parses as JSON but is no array of strings   *)
(* (a JSON string, or an array with an element that is no string) the      *)
(* attempt has failed and nothing of it is in the table; and every value   *)
(* the table holds for a text of a batch is a string.                      *)
(***************************************************************************)
\* a value that is a string: a sequence of code points
IsString(value) == \A i \in 1..Len(value) : value[i] >= 0

\* the answer parses as JSON and is an array of strings
IsArrayOfStrings(json) ==
    json.t = "array" /\ \A i \in 1..Len(json.elems) : IsString(json.elems[i])

C13_OnlyArraysOfStringsAreMerged ==
    \A r \in Requests :
        LET tr == trace[r]
        IN  /\ ReplyPositions(tr) # {} =>
                  LET p == SetMax(ReplyPositions(tr))
                      texts == tt[r].batches[tr[p - 1].batch].texts
                  IN  (/\ lastResponse[r].kind = "text"
                       /\ lastResponse[r].json.t # "invalid"
                       /\ ~IsArrayOfStrings(lastResponse[r].json)) =>
                         /\ ~tr[p].ok
                         /\ \A k \in 1..Len(texts) : ~MapHas(tt[r].translations, texts[k])
            /\ \A b \in 1..Len(tt[r].batches) :
                  \A k \in 1..Len(tt[r].batches[b].texts) :
                     MapHas(tt[r].translations, tt[r].batches[b].texts[k]) =>
                        IsString(MapGet(tt[r].translations, tt[r].batches[b].texts[k]))

\* the provider answered the JSON string "a" to a batch of one text: the
\* request completed with that text mapped to the character "a"
C13_JsonStringMerged ==
    /\ pc[1] = "done"
    /\ EventPositions(trace[1], "complete") # {}
    /\ lastResponse[1].kind = "text"
    /\ lastResponse[1].json.t = "string"
    /\ Len(tt[1].batches) = 1
    /\ MapGet(tt[1].translations, tt[1].batches[1].texts[1]) = << 97 >>

(***************************************************************************)
(* Two requests in one process: both slots hold a request from the start,  *)
(* and the handlers interleave at their awaits. A request that arrives     *)
(* after the other has ended is the interleaving in which its first step   *)
(* comes last.                                                             *)
(***************************************************************************)
\* the customContext form values: none, and two different ones
CustomContexts == {"", "ctxA", "ctxB"}

\* a feed with one text to translate, under the custom profile with each
\* context, and under the furniture profile with a context sent along
ConcurrentRequests ==
    {[BaseRequest EXCEPT !.file = File(1, 0, 0), !.industry = "custom", !.customContext = c] :
        c \in CustomContexts}
    \cup {[BaseRequest EXCEPT !.file = File(1, 0, 0), !.customContext = "ctxA"]}

ConcurrentInit ==
    /\ industries = [id \in IndustryIds |-> [context |-> InitialContext[id]]]
    /\ request \in [Requests -> ConcurrentRequests]
    /\ pc = [r \in Requests |-> "formData"]
    /\ trace = [r \in Requests |-> << >>]
    /\ tt = [r \in Requests |-> NoFrameTT]
    /\ tb = [r \in Requests |-> NoFrameTB]
    /\ outcome = [r \in Requests |-> [state |-> "none", error |-> NoError]]
    /\ lastResponse = [r \in Requests |-> NoResponse]
    /\ eval = NoEval

ConcurrentSpec == ConcurrentInit /\ [][Next]_vars

(***************************************************************************)
(* C14: applyTranslations replaces an occurrence of an entry's original    *)
(* in the input document by exactly that entry's translation, also when    *)
(* the translation of a longer original contains a shorter original: when  *)
(* the document is the original of an entry that differs from its          *)
(* translation and every other original is strictly shorter, the result    *)
(* is that entry's translation.                                            *)
(***************************************************************************)
C14_OccurrenceReplacedByItsTranslation ==
    (eval.f = "applyTranslations" /\ eval.done) =>
        LET doc == eval.args.xmlContent
            table == eval.args.translations
        IN  \A i \in 1..Len(table) :
                (/\ table[i].key # table[i].value
                 /\ table[i].key # << >>
                 /\ doc = table[i].key
                 /\ \A j \in 1..Len(table) : j # i => Len(table[j].key) < Len(doc))
                    => eval.result = table[i].value

\* "ab" with the table "ab" -> "abx", "b" -> "bx" came back as "abxx": the
\* translation "abx" was rewritten by the shorter entry
C14_TranslationRewrittenAgain ==
    /\ eval.f = "applyTranslations"
    /\ eval.done
    /\ eval.args.xmlContent = << 97, 98 >>
    /\ eval.args.translations = << [key |-> << 97, 98 >>, value |-> << 97, 98, 120 >>],
                                   [key |-> << 98 >>, value |-> << 98, 120 >>] >>
    /\ eval.result = << 97, 98, 120, 120 >>

(***************************************************************************)
(* C15: applyTranslations processes the entries in descending order of     *)
(* the length of their original: the processing order holds the entries    *)
(* of the table, longest original first; and when the document is an       *)
(* original (not empty) strictly longer than every other original, and its *)
(* translation contains no other original, the result is that translation  *)
(* whatever the insertion order (the shorter entry did not rewrite a part  *)
(* of the longer original first).                                          *)
(***************************************************************************)
\* t is a contiguous part of s (the empty string is a part of every string)
IsSubstring(t, s) ==
    \E i \in 1..(Len(s) - Len(t) + 1) : SubSeq(s, i, i + Len(t) - 1) = t

C15_LongerOriginalSubstitutedFirst ==
    (eval.f = "applyTranslations" /\ eval.done) =>
        LET doc == eval.args.xmlContent
            table == eval.args.translations
            sorted == SortByLengthDesc(table)
        IN  /\ Len(sorted) = Len(table)
            /\ {sorted[i] : i \in 1..Len(sorted)} = {table[i] : i \in 1..Len(table)}
            /\ \A i, j \in 1..Len(sorted) :
                  i < j => Len(sorted[i].key) >= Len(sorted[j].key)
            /\ \A i \in 1..Len(table) :
                  (/\ table[i].key # table[i].value
                   /\ table[i].key # << >>
                   /\ doc = table[i].key
                   /\ \A j \in 1..Len(table) : j # i =>
                         /\ Len(table[j].key) < Len(doc)
                         /\ ~IsSubstring(table[j].key, table[i].value))
                      => eval.result = table[i].value

\* "ab" with the table "b" -> "bx", "ab" -> "x", the shorter original
\* inserted first, came back as "x"
C15_ShorterInsertedFirst ==
    /\ eval.f = "applyTranslations"
    /\ eval.done
    /\ eval.args.xmlContent = << 97, 98 >>
    /\ eval.args.translations = << [key |-> << 98 >>, value |-> << 98, 120 >>],
                                   [key |-> << 97, 98 >>, value |-> << 120 >>] >>
    /\ eval.result = << 120 >>

(***************************************************************************)
(* C16: applyTranslations returns the document unchanged when every entry  *)
(* of the table maps a text to itself or has an original that does not     *)
(* occur in the document; an empty table is the case of no entry.          *)
(***************************************************************************)
C16_NothingToReplaceLeavesDocument ==
    (eval.f = "applyTranslations" /\ eval.done) =>
        LET doc == eval.args.xmlContent
            table == eval.args.translations
        IN  (\A i \in 1..Len(table) :
                \/ table[i].key = table[i].value
                \/ ~IsSubstring(table[i].key, doc))
                => eval.result = doc

\* "aa" with the table "a" -> "a", "b" -> "a" came back as "aa"
C16_IdentityAndAbsentEntries ==
    /\ eval.f = "applyTranslations"
    /\ eval.done
    /\ eval.args.xmlContent = << 97, 97 >>
    /\ eval.args.translations = << [key |-> << 97 >>, value |-> << 97 >>],
                                   [key |-> << 98 >>, value |-> << 97 >>] >>
    /\ eval.result = << 97, 97 >>

(***************************************************************************)
(* C17: every provider call of a request that selects the custom profile   *)
(* and sends a custom context carries that request's context in its        *)
(* system prompt, whatever another request does in between.                *)
(***************************************************************************)
C17_CallsCarryOwnContext ==
    \A r \in Requests :
        (request[r].industry = "custom" /\ request[r].customContext # "") =>
            \A p \in CallPositions(trace[r]) :
                trace[r][p].system.context = request[r].customContext

\* request 1 sent "ctxA" and request 2 sent "ctxB"; request 2 read its form
\* while request 1 awaited file.text(), and the call of request 1 went out
\* with "ctxB"
C17_CallWithOtherRequestsContext ==
    /\ request[1].industry = "custom" /\ request[1].customContext = "ctxA"
    /\ request[2].industry = "custom" /\ request[2].customContext = "ctxB"
    /\ \E p \in CallPositions(trace[1]) : trace[1][p].system.context = "ctxB"

(***************************************************************************)
(* C18: handling requests leaves the profile table as it was loaded (the   *)
(* custom profile's context stays empty, a non-custom profile's context    *)
(* stays its own), and a custom-profile request that sends no context      *)
(* issues its calls with an empty prompt context.                          *)
(***************************************************************************)
C18_ProfileTableReadOnly ==
    /\ \A id \in IndustryIds : industries[id].context = InitialContext[id]
    /\ \A r \in Requests :
          (request[r].industry = "custom" /\ request[r].customContext = "") =>
              \A p \in CallPositions(trace[r]) : trace[r][p].system.context = ""

\* request 1 (custom profile, context "ctxA") has ended with the custom
\* profile's context left at "ctxA", and request 2 (custom profile, no
\* context) has issued a call whose prompt context is "ctxA"
C18_LaterRequestInheritsContext ==
    /\ request[1].industry = "custom" /\ request[1].customContext = "ctxA"
    /\ request[2].industry = "custom" /\ request[2].customContext = ""
    /\ pc[1] = "done"
    /\ industries["custom"].context = "ctxA"
    /\ \E p \in CallPositions(trace[2]) : trace[2][p].system.context = "ctxA"

\* the furniture profile's context is never changed, also by a request that
\* sends a custom context along
C18_NonCustomContextKept ==
    industries["home-furniture"].context = InitialContext["home-furniture"]

(***************************************************************************)
(* C19: a request whose form was read and that lacks file, industry,       *)
(* sourceLang, targetLang or apiKey, or names no profile of the table,     *)
(* sends an error event as its first and only event and ends at once: no   *)
(* status, stats or progress event, the handler never gets to reading or   *)
(* extracting the file, translateTexts is not entered, no provider call.   *)
(***************************************************************************)
MissingField(req) ==
    \/ ~req.file.present \/ req.industry = "" \/ req.sourceLang = ""
    \/ req.targetLang = "" \/ req.apiKey = ""

C19_InvalidRequestOnlyError ==
    \A r \in Requests :
        (/\ pc[r] # "absent"
         /\ request[r].formOk
         /\ (MissingField(request[r]) \/ request[r].industry \notin IndustryIds)) =>
            /\ pc[r] \in {"formData", "done"}
            /\ tt[r] = NoFrameTT
            /\ tb[r] = NoFrameTB
            /\ CallPositions(trace[r]) = {}
            /\ \A i \in 1..Len(trace[r]) :
                  trace[r][i].op = "event" => (i = 1 /\ trace[r][i].data.type = "error")
            /\ pc[r] = "done" =>
                  /\ Len(trace[r]) >= 1
                  /\ IsEvent(trace[r][1], "error")
                  /\ trace[r][1].data.message =
                        (IF MissingField(request[r]) THEN "Missing required fields"
                         ELSE "Unknown industry")

\* the request for the profile "toys" has ended: its only event is the
\* error "Unknown industry"
C19_UnknownIndustryRejected ==
    /\ request[1].industry = "toys"
    /\ pc[1] = "done"
    /\ EventPositions(trace[1], "error") = {1}
    /\ trace[1][1].data.message = "Unknown industry"

(***************************************************************************)
(* C20: when the request is well-formed, the file and the field list were  *)
(* read, and extraction yields no item, the request ends with one error    *)
(* event ("No translatable content found") as its last event, without a    *)
(* stats, progress or complete event and without a provider call.          *)
(***************************************************************************)
\* what extractTranslatables yields for the request's file, language and fields
ExtractedItems(req) ==
    extractTranslatables(Products(req.file), req.sourceLang,
                         IF req.fieldsJson.kind = "null" THEN NoSelection
                         ELSE Selection(req.fieldsJson.ids))

C20_EmptyExtractionEndsInError ==
    \A r \in Requests :
        (/\ pc[r] \notin {"absent", "formData", "fileText"}
         /\ request[r].formOk
         /\ request[r].fileOk
         /\ ~MissingField(request[r])
         /\ request[r].industry \in IndustryIds
         /\ request[r].fieldsJson.kind \in {"null", "array"}
         /\ Len(ExtractedItems(request[r])) = 0) =>
            /\ pc[r] = "done"
            /\ tt[r] = NoFrameTT
            /\ CallPositions(trace[r]) = {}
            /\ EventPositions(trace[r], "stats") = {}
            /\ EventPositions(trace[r], "progress") = {}
            /\ EventPositions(trace[r], "complete") = {}
            /\ Cardinality(EventPositions(trace[r], "error")) = 1
            /\ \A p \in EventPositions(trace[r], "error") :
                  /\ trace[r][p].data.message = "No translatable content found"
                  /\ \A i \in (p + 1)..Len(trace[r]) : trace[r][i].op # "event"

\* a Bulgarian feed sent with source language "el": nothing was extracted and
\* the request ended with the error after its two status events
C20_WrongSourceLanguage ==
    /\ request[1].sourceLang = "el"
    /\ pc[1] = "done"
    /\ Cardinality(EventPositions(trace[1], "status")) = 2
    /\ \E p \in EventPositions(trace[1], "error") :
          trace[1][p].data.message = "No translatable content found"

(***************************************************************************)
(* C21: an exception thrown in the try block (the form or file read        *)
(* rejects, the field list does not parse or cannot be iterated,           *)
(* translateTexts throws) is caught: the handler ends with its error event *)
(* followed by the one close() of the channel. On every path a close() is  *)
(* preceded by a terminal event, and a handler that has ended has closed   *)
(* the channel.                                                            *)
(***************************************************************************)
ClosePositions(tr) == {i \in 1..Len(tr) : tr[i].op = "close"}

\* the exception the try block of request r has thrown ("none": none so far)
Thrown(r) ==
    LET req == request[r]
    IN  IF pc[r] \in {"absent", "formData"} THEN NoError
        ELSE IF ~req.formOk THEN Err("formData rejected")
        ELSE IF MissingField(req) \/ req.industry \notin IndustryIds THEN NoError
        ELSE IF pc[r] = "fileText" THEN NoError
        ELSE IF ~req.fileOk THEN Err("file.text rejected")
        ELSE IF req.fieldsJson.kind = "invalid" THEN Err("SyntaxError")
        ELSE IF req.fieldsJson.kind = "noniterable" THEN Err("TypeError")
        ELSE IF outcome[r].state = "threw" /\ pc[r] = "done" THEN outcome[r].error
        ELSE NoError

C21_ExceptionsEndInErrorAndClose ==
    \A r \in Requests :
        LET tr == trace[r]
        IN  /\ \A p \in ClosePositions(tr) : \E q \in TerminalPositions(tr) : q < p
            /\ pc[r] = "done" => ClosePositions(tr) # {}
            /\ Thrown(r) # NoError =>
                  /\ pc[r] = "done"
                  /\ Len(tr) >= 2
                  /\ IsEvent(tr[Len(tr) - 1], "error")
                  /\ tr[Len(tr) - 1].data.message = "Translation failed"
                  /\ tr[Len(tr) - 1].data.err = Thrown(r)
                  /\ ClosePositions(tr) = {Len(tr)}
                  /\ ~tr[Len(tr)].threw

\* a field list that parses to a value new Set() cannot iterate: the
\* TypeError was reported after the two status events, then the channel
\* closed
C21_FieldListNotIterable ==
    /\ request[1].fieldsJson.kind = "noniterable"
    /\ pc[1] = "done"
    /\ Len(trace[1]) = 4
    /\ IsEvent(trace[1][3], "error")
    /\ trace[1][3].data.err.name = "TypeError"
    /\ trace[1][4].op = "close"

(***************************************************************************)
(* C22: after the caller has cancelled the response stream no provider     *)
(* call is issued for a batch other than the one in flight at that time:   *)
(* every call after the cancellation is for a batch that was called        *)
(* before it (a retry of the batch in flight).                             *)
(***************************************************************************)
CancelPositions(tr) == {i \in 1..Len(tr) : tr[i].op = "cancel"}

C22_NoLaterBatchAfterCancel ==
    \A r \in Requests :
        \A c \in CancelPositions(trace[r]) :
            \A p \in CallPositions(trace[r]) :
                p > c => \E q \in CallPositions(trace[r]) :
                            q < c /\ trace[r][q].batch = trace[r][p].batch

\* a job of three batches cancelled during the first call: the first batch
\* was answered and merged, the progress report threw, and the handler
\* ended without a call for the second batch
C22_StoppedAfterBatchInFlight ==
    /\ Len(tt[1].batches) = 3
    /\ pc[1] = "done"
    /\ \E c \in CancelPositions(trace[1]) :
          /\ trace[1][c - 1].op = "call"
          /\ trace[1][c + 1].op = "reply" /\ trace[1][c + 1].ok
          /\ trace[1][c + 2].op = "merge"
    /\ CallsOfBatch(trace[1], 2) = {}

(***************************************************************************)
(* C23: extractTranslatables yields no item whose field is outside the     *)
(* selection (the default kinds when none is given); so with only one kind *)
(* of a pair selected (property, tab or option name / value) no item has   *)
(* the other kind.                                                         *)
(***************************************************************************)
C23_ItemsOnlyOfSelectedKinds ==
    (eval.f = "extractTranslatables" /\ eval.done) =>
        LET sel == eval.args.selectedFields
            fields == IF sel.given THEN sel.ids ELSE DefaultFields
        IN  \A i \in 1..Len(eval.result) : eval.result[i].field \in fields

\* two products under "bg" with only category_property_value and option_name
\* selected: the result has items of both kinds, among them a property value
\* whose property name is Cyrillic too
C23_OneKindOfEachPair ==
    /\ eval.f = "extractTranslatables"
    /\ eval.done
    /\ eval.args.products = << FullProduct, MixedProduct >>
    /\ eval.args.sourceLang = "bg"
    /\ eval.args.selectedFields = Selection({"category_property_value", "option_name"})
    /\ \E i \in 1..Len(eval.result) :
          /\ eval.result[i].field = "category_property_value"
          /\ eval.result[i].path.key = V(6)
    /\ \E i \in 1..Len(eval.result) : eval.result[i].field = "option_name"

(***************************************************************************)
(* C24: the counts of deduplicateItems(items) sum to the number of items,  *)
(* and the texts of its entries are the texts of the items.                *)
(***************************************************************************)
RECURSIVE SumOfCounts(_)
SumOfCounts(entries) ==
    IF Len(entries) = 0 THEN 0
    ELSE entries[1].count + SumOfCounts(Tail(entries))

C24_CountsSumToItems ==
    (eval.f = "deduplicateItems" /\ eval.done) =>
        LET items == eval.args.items
            entries == eval.result
        IN  /\ SumOfCounts(entries) = Len(items)
            /\ {entries[i].text : i \in 1..Len(entries)} = {items[i].text : i \in 1..Len(items)}

\* four items with two texts came back as two entries with counts 3 and 1
C24_ThreeAndOne ==
    /\ eval.f = "deduplicateItems"
    /\ eval.done
    /\ eval.args.items = << Item(V(1), "title"), Item(V(2), "title"),
                            Item(V(1), "category"), Item(V(1), "title") >>
    /\ Len(eval.result) = 2
    /\ eval.result[1].count = 3
    /\ eval.result[2].count = 1

(***************************************************************************)
(* C25: deduplicateItems returns one entry per distinct text, in the order *)
(* of the texts' first occurrence; an entry's count is the number of items *)
(* with its text, and its fields are the field kinds of those items, each  *)
(* once.                                                                   *)
(***************************************************************************)
\* the positions of the items with the given text
PositionsOfText(items, text) == {i \in 1..Len(items) : items[i].text = text}

C25_OneEntryPerTextInFirstSeenOrder ==
    (eval.f = "deduplicateItems" /\ eval.done) =>
        LET items == eval.args.items
            entries == eval.result
        IN  /\ \A i \in 1..Len(items) : \E k \in 1..Len(entries) : entries[k].text = items[i].text
            /\ \A k, l \in 1..Len(entries) : entries[k].text = entries[l].text => k = l
            /\ \A k \in 1..Len(entries) :
                  LET at == PositionsOfText(items, entries[k].text)
                      fs == entries[k].fields
                  IN  /\ at # {}
                      /\ entries[k].count = Cardinality(at)
                      /\ {fs[j] : j \in 1..Len(fs)} = {items[i].field : i \in at}
                      /\ \A j, m \in 1..Len(fs) : fs[j] = fs[m] => j = m
                      /\ \A l \in 1..Len(entries) :
                            k < l => \E i \in at :
                                        \A j \in PositionsOfText(items, entries[l].text) : i < j

\* "constructor" as a category, then a title, then "constructor" as a
\* category again and as a title: the first entry is "constructor" with the
\* fields category, title and the count 3
C25_RepeatedTextAndField ==
    /\ eval.f = "deduplicateItems"
    /\ eval.done
    /\ eval.args.items = << Item(Constructor, "category"), Item(V(1), "title"),
                            Item(Constructor, "category"), Item(Constructor, "title") >>
    /\ eval.result = << [text |-> Constructor, fields |-> << "category", "title" >>, count |-> 3],
                        [text |-> V(1), fields |-> << "title" >>, count |-> 1] >>

(***************************************************************************)
(* C26: for a listed language code containsSourceLanguage is true exactly  *)
(* when the text has a code unit in the Unicode block (for ja: one of the  *)
(* three blocks) of the code's script.                                     *)
(***************************************************************************)
\* the Unicode blocks: Cyrillic; Greek and Coptic; CJK Unified Ideographs;
\* Hiragana and Katakana; Hangul Syllables; Arabic; Hebrew
BlocksOf(lang) ==
    CASE lang \in {"bg", "ru", "sr", "mk", "uk"} -> {<< 1024, 1279 >>}
      [] lang = "el" -> {<< 880, 1023 >>}
      [] lang = "zh" -> {<< 19968, 40959 >>}
      [] lang = "ja" -> {<< 12352, 12447 >>, << 12448, 12543 >>, << 19968, 40959 >>}
      [] lang = "ko" -> {<< 44032, 55215 >>}
      [] lang = "ar" -> {<< 1536, 1791 >>}
      [] lang = "he" -> {<< 1424, 1535 >>}
      [] OTHER -> {}

\* the further blocks of the Basic Multilingual Plane that hold characters of
\* the script: Cyrillic Supplement, Extended-C, Extended-A, Extended-B; Greek
\* Extended; CJK Extension A, Compatibility Ideographs; Katakana Phonetic
\* Extensions, half-width katakana; Hangul Jamo, Compatibility Jamo, Jamo
\* Extended-A and -B; Arabic Supplement, Extended-A, Presentation Forms-A
\* and -B; Hebrew presentation forms
FurtherBlocksOf(lang) ==
    CASE lang \in {"bg", "ru", "sr", "mk", "uk"} ->
              {<< 1280, 1327 >>, << 7296, 7311 >>, << 11744, 11775 >>, << 42560, 42655 >>}
      [] lang = "el" -> {<< 7936, 8191 >>}
      [] lang = "zh" -> {<< 13312, 19903 >>, << 63744, 64255 >>}
      [] lang = "ja" -> {<< 13312, 19903 >>, << 63744, 64255 >>, << 12784, 12799 >>, << 65382, 65439 >>}
      [] lang = "ko" -> {<< 4352, 4607 >>, << 12593, 12686 >>, << 43360, 43391 >>, << 55216, 55295 >>}
      [] lang = "ar" -> {<< 1872, 1919 >>, << 2208, 2303 >>, << 64336, 65023 >>, << 65136, 65279 >>}
      [] lang = "he" -> {<< 64285, 64335 >>}
      [] OTHER -> {}

HasCodeUnitOf(text, ranges) ==
    \E i \in 1..Len(text) : \E rg \in ranges : text[i] >= rg[1] /\ text[i] <= rg[2]

C26_TrueIffCodeUnitInBlock ==
    (eval.f = "containsSourceLanguage" /\ eval.done /\ eval.args.sourceLang \in ListedLangs) =>
        (eval.result <=> HasCodeUnitOf(eval.args.text, BlocksOf(eval.args.sourceLang)))

\* C26 as stated: true exactly when the text has a character of the code's
\* script, in whatever block of the script
C26_TrueIffCharacterOfScript ==
    (eval.f = "containsSourceLanguage" /\ eval.done /\ eval.args.sourceLang \in ListedLangs) =>
        (eval.result <=>
            HasCodeUnitOf(eval.args.text,
                          BlocksOf(eval.args.sourceLang) \cup FurtherBlocksOf(eval.args.sourceLang)))

\* "a" followed by the last code unit of the Hangul Syllables block is true
\* under "ko", and the half-width katakana U+FF76 alone is false under "ja"
C26_LastOfBlockDetected ==
    /\ eval.f = "containsSourceLanguage"
    /\ eval.done
    /\ eval.args.sourceLang = "ko"
    /\ eval.args.text = << 97, 55215 >>
    /\ eval.result

(***************************************************************************)
(* C27: containsSourceLanguage is false for the empty text and for a text  *)
(* of white space only (what trim strips) under every language code, and   *)
(* true for every other text under a code the switch does not list.        *)
(***************************************************************************)
C27_BlankFalseUnlistedTrue ==
    (eval.f = "containsSourceLanguage" /\ eval.done) =>
        LET text == eval.args.text
            blank == \A i \in 1..Len(text) : IsWhitespace(text[i])
        IN  /\ blank => ~eval.result
            /\ (~blank /\ eval.args.sourceLang \notin ListedLangs) => eval.result

\* a text of a space and an ideographic space is false under "de"
C27_BlankUnderLatinCode ==
    /\ eval.f = "containsSourceLanguage"
    /\ eval.done
    /\ eval.args.sourceLang = "de"
    /\ eval.args.text = << 32, 12288 >>
    /\ ~eval.result

(***************************************************************************)
(* C28: a request whose extraction is not empty sends the stats event      *)
(* exactly once, with the numbers of that extraction, before every         *)
(* progress event and every provider call; a request that fails            *)
(* validation, fails before extraction or extracts nothing sends none.     *)
(***************************************************************************)
\* the request gets as far as extraction and extracts at least one item
ExtractsSomething(req) ==
    /\ req.formOk
    /\ req.fileOk
    /\ ~MissingField(req)
    /\ req.industry \in IndustryIds
    /\ req.fieldsJson.kind \in {"null", "array"}
    /\ Len(ExtractedItems(req)) > 0

C28_StatsOnceBeforeProgressAndCalls ==
    \A r \in Requests :
        LET tr == trace[r]
            stats == EventPositions(tr, "stats")
        IN  /\ Cardinality(stats) <= 1
            /\ \A p \in stats :
                  /\ \A q \in EventPositions(tr, "progress") \cup CallPositions(tr) : p < q
                  /\ tr[p].data.totalItems = Len(ExtractedItems(request[r]))
            /\ (pc[r] \notin {"absent", "formData", "fileText"}) =>
                  (stats # {} <=> ExtractsSomething(request[r]))

\* a request of three batches has ended: its one stats event is the third
\* entry of its trace, before the first progress event and the first call
C28_StatsThenThreeBatches ==
    /\ pc[1] = "done"
    /\ Len(tt[1].batches) = 3
    /\ EventPositions(trace[1], "stats") = {3}
    /\ IsEvent(trace[1][5], "progress")
    /\ trace[1][6].op = "call"
    /\ EventPositions(trace[1], "complete") # {}

(***************************************************************************)
(* C29: when a request completes, the keys of its table are the texts of   *)
(* the deduplicated entries, each once, and the translationCount of the    *)
(* complete event is the uniqueItems of the stats event.                   *)
(***************************************************************************)
C29_TableKeysAreEntryTexts ==
    \A r \in Requests :
        \A p \in EventPositions(trace[r], "complete") :
            LET unique == deduplicateItems(ExtractedItems(request[r]))
                table == tt[r].translations
            IN  /\ MapKeys(table) = {unique[i].text : i \in 1..Len(unique)}
                /\ Len(table) = Len(unique)
                /\ trace[r][p].data.translationCount = Len(unique)
                /\ \A q \in EventPositions(trace[r], "stats") :
                      trace[r][q].data.uniqueItems = trace[r][p].data.translationCount

\* a completed request under the furniture profile with two glossary terms
\* and 41 other texts: 43 keys, translationCount 43, uniqueItems 43
C29_HitsAndTwoBatches ==
    /\ request[1].file = File(41, 2, 0)
    /\ request[1].industry = "home-furniture"
    /\ \E p \in EventPositions(trace[1], "complete") : trace[1][p].data.translationCount = 43
    /\ \E q \in EventPositions(trace[1], "stats") : trace[1][q].data.uniqueItems = 43
    /\ Len(tt[1].translations) = 43

(***************************************************************************)
(* C30: while a batch is with the provider, the prompt shows each of its   *)
(* texts in order, a text of more than 500 code units as its first 500     *)
(* followed by "..."; when the latest attempt succeeded, the table maps    *)
(* the i-th text of its batch, in full, to the i-th element of the         *)
(* response, for every position i of the batch.                            *)
(***************************************************************************)
C30_PositionsPairedUnderFullText ==
    \A r \in Requests :
        LET tr == trace[r]
        IN  /\ pc[r] \in {"call", "backoff"} =>
                  LET texts == tt[r].batches[tt[r].batch].texts
                      shown == tb[r].numberedTexts
                  IN  /\ Len(shown) = Len(texts)
                      /\ \A i \in 1..Len(texts) :
                            /\ shown[i].index = i
                            /\ IF Len(texts[i]) <= 500
                               THEN shown[i].displayText = texts[i]
                               ELSE /\ Len(shown[i].displayText) = 503
                                    /\ \A k \in 1..500 : shown[i].displayText[k] = texts[i][k]
                                    /\ \A k \in 501..503 : shown[i].displayText[k] = 46
            /\ (ReplyPositions(tr) # {} /\ tr[SetMax(ReplyPositions(tr))].ok) =>
                  LET p == SetMax(ReplyPositions(tr))
                      texts == tt[r].batches[tr[p - 1].batch].texts
                      table == tt[r].translations
                  IN  /\ lastResponse[r].json.t \in {"array", "string"}
                      /\ Len(lastResponse[r].json.elems) = Len(texts)
                      /\ \A i \in 1..Len(texts) :
                            /\ Cardinality({j \in 1..Len(table) : table[j].key = texts[i]}) = 1
                            /\ MapGet(table, texts[i]) = lastResponse[r].json.elems[i]

\* a request whose one batch holds a text of 501 code units in second place
\* has ended: the prompt showed 503 code units of it, the table holds it in
\* full with the second element of the response
C30_LongTextKeptAsKey ==
    /\ pc[1] = "done"
    /\ request[1].file = File(1, 0, 2)
    /\ Len(tt[1].batches) = 1
    /\ Len(tt[1].batches[1].texts) = 2
    /\ Len(tt[1].batches[1].texts[2]) = 501
    /\ Len(NumberedTexts(tt[1].batches[1])[2].displayText) = 503
    /\ trace[1][SetMax(ReplyPositions(trace[1]))].ok
    /\ lastResponse[1].json.t = "array"
    /\ MapGet(tt[1].translations, tt[1].batches[1].texts[2]) = lastResponse[1].json.elems[2]
    /\ lastResponse[1].json.elems[2] # lastResponse[1].json.elems[1]

(***************************************************************************)
(* C31: once translateTexts has been entered with an entry that is no      *)
(* glossary term, the trace holds one progress event per merged batch,     *)
(* directly after the merge, and one more that precedes every provider     *)
(* call; a completed request of k batches has k+1 progress events, a       *)
(* request whose j-th batch used up its attempts has j.                    *)
(***************************************************************************)
MergePositions(tr) == {i \in 1..Len(tr) : tr[i].op = "merge"}

C31_OneReportUpfrontAndOnePerBatch ==
    \A r \in Requests :
        LET tr == trace[r]
            progress == EventPositions(tr, "progress")
        IN  MissTexts(r) # << >> =>
               /\ Cardinality({p \in progress : \A c \in CallPositions(tr) : p < c}) = 1
               /\ \A m \in MergePositions(tr) : m + 1 \in progress
               /\ Cardinality(progress) = 1 + Cardinality(MergePositions(tr))
               /\ \A m \in MergePositions(tr) :
                     Cardinality({p \in progress : p <= m + 1}) = tr[m].batch + 1
               /\ EventPositions(tr, "complete") # {} =>
                     Cardinality(progress) = Len(tt[r].batches) + 1
               /\ \A p \in ExhaustedReplies(tr) :
                     Cardinality(progress) = tr[p - 1].batch

\* the second of three batches used up its attempts and the request has
\* ended: two progress events, the second after the merge of the first batch
C31_TwoReportsWhenSecondBatchFails ==
    /\ pc[1] = "done"
    /\ Len(tt[1].batches) = 3
    /\ \E p \in ExhaustedReplies(trace[1]) : trace[1][p - 1].batch = 2
    /\ Cardinality(EventPositions(trace[1], "progress")) = 2
    /\ Cardinality(MergePositions(trace[1])) = 1
    /\ EventPositions(trace[1], "error") # {}

(***************************************************************************)
(* C32: every item extractTranslatables yields, of a simple field and of   *)
(* the name or a value of a property, tab or option alike, has a text with *)
(* a code unit that trim does not strip and, under a listed language code, *)
(* a code unit of that code's blocks; so no entry of deduplicateItems of   *)
(* the result, whose texts are the keys of the table (C29), has the empty  *)
(* text.                                                                   *)
(***************************************************************************)
C32_ItemsAreNonBlankSourceTexts ==
    (eval.f = "extractTranslatables" /\ eval.done) =>
        /\ \A i \in 1..Len(eval.result) :
              LET text == eval.result[i].text
              IN  /\ Len(text) >= 1
                  /\ \E k \in 1..Len(text) : ~IsWhitespace(text[k])
                  /\ eval.args.sourceLang \in ListedLangs =>
                        HasCodeUnitOf(text, BlocksOf(eval.args.sourceLang))
        /\ LET unique == deduplicateItems(eval.result)
           IN  \A i \in 1..Len(unique) : unique[i].text # << >>

\* the product of blank texts under "en" with every kind selected: the items
\* are the title, the meta title U+0085, the values U+200B and V(1) and the
\* description of the second tab, none of the empty or blank names and values
C32_BlankNamesAndValuesSkipped ==
    /\ eval.f = "extractTranslatables"
    /\ eval.done
    /\ eval.args.products = << BlankProduct >>
    /\ eval.args.sourceLang = "en"
    /\ eval.args.selectedFields = Selection(AllFields)
    /\ [i \in 1..Len(eval.result) |-> eval.result[i].text]
          = << << 32, 1041, 32 >>, << 133 >>, << 8203 >>, V(1), << 32, 1042 >> >>
    /\ [i \in 1..Len(eval.result) |-> eval.result[i].field]
          = << "title", "meta_title", "category_property_value", "category_property_value",
               "tab_description" >>

(***************************************************************************)
(* C33: close() of the channel is never invoked a second time, and when    *)
(* the handler has ended, on whatever path, it has been invoked exactly    *)
(* once.                                                                   *)
(***************************************************************************)
C33_CloseInvokedExactlyOnce ==
    \A r \in Requests :
        /\ Cardinality(ClosePositions(trace[r])) <= 1
        /\ pc[r] = "done" => Cardinality(ClosePositions(trace[r])) = 1

\* a request without an API key has ended: the error event, the close() of
\* the early return, and the close() of the finally block, which threw
C33_ClosedTwiceOnMissingField ==
    /\ pc[1] = "done"
    /\ request[1].apiKey = ""
    /\ Len(trace[1]) = 3
    /\ IsEvent(trace[1][1], "error")
    /\ trace[1][2].op = "close" /\ ~trace[1][2].threw
    /\ trace[1][3].op = "close" /\ trace[1][3].threw

(***************************************************************************)
(* C34: when every provider call settles and every backoff wait ends, a    *)
(* translateTexts that is waiting for either one eventually returns its    *)
(* table or throws; and at any time the provider calls a request has       *)
(* issued number at most 3 * ceil(N / 40), N being the number of its       *)
(* entries that are no glossary term.                                      *)
(***************************************************************************)
CallBudget(r) == 3 * ((Len(MissTexts(r)) + 39) \div 40)

C34_TerminatesWithinCallBudget ==
    /\ [](\A r \in Requests : Cardinality(CallPositions(trace[r])) <= CallBudget(r))
    /\ \A r \in Requests :
          (pc[r] \in {"call", "backoff"}) ~> (outcome[r].state \in {"returned", "threw"})

\* 81 entries, none a glossary term: each of the three batches took three
\* attempts, nine calls in all, and translateTexts returned
C34_NineCallsForEightyOneEntries ==
    /\ Len(MissTexts(1)) = 81
    /\ Cardinality(CallPositions(trace[1])) = 9
    /\ \A b \in 1..3 : Cardinality(CallsOfBatch(trace[1], b)) = 3
    /\ outcome[1].state = "returned"

(***************************************************************************)
(* C35: every progress event has total >= 1 and a percent in 0..100 that   *)
(* is 100 * completed / total rounded to the nearest integer, and the last *)
(* progress event of a request that completed has percent 100.             *)
(***************************************************************************)
\* 100 * completed / total rounded to the nearest integer, a tie going up
RoundedShare(completed, total) == (200 * completed + total) \div (2 * total)

C35_PercentIsRoundedShare ==
    \A r \in Requests :
        LET tr == trace[r]
            progress == EventPositions(tr, "progress")
        IN  /\ \A p \in progress :
                  /\ tr[p].data.total >= 1
                  /\ tr[p].data.percent \in 0..100
                  /\ tr[p].data.percent = RoundedShare(tr[p].data.completed, tr[p].data.total)
            /\ (EventPositions(tr, "complete") # {} /\ progress # {}) =>
                  tr[SetMax(progress)].data.percent = 100

\* a feed of 80 texts, 6 of them glossary terms: after the first batch of 40
\* the progress event says 46 of 80 and 57 percent, where 57.5 rounds to 58
C35_FortySixOfEightyIs57 ==
    \E p \in EventPositions(trace[1], "progress") :
        /\ trace[1][p].data.completed = 46
        /\ trace[1][p].data.total = 80
        /\ trace[1][p].data.percent = 57
        /\ RoundedShare(46, 80) = 58

=============================================================================
